---- MODULE Spec2Model ----
(***************************************************************************)
(* Synth80: the Mixer (mixer.ts), its Voice handles, the VoiceProcessor    *)
(* port protocol (audioWorklet.ts) and the MusicModel note source          *)
(* (musicModel.ts), as one state machine.                                  *)
(*                                                                         *)
(* Times are AudioContext.currentTime values in whole milliseconds.        *)
(* A JavaScript `null` (or `undefined`) number is written Null.            *)
(***************************************************************************)
EXTENDS Integers, Sequences, FiniteSets, TLC

\* ---- bounds of the model ------------------------------------------------
MaxTime == 1
MaxVoices == 2
MaxPolyVoices == 9
MaxChanges == 2
MaxEnded == 1
TicksPerSample == 4
TransitionSamples == 5
MaxAdvance == 2
MaxElapsed == 5
BlockSize == 2
PingExpectedSamples == 2
MaxBlocks == 3
MaxInFlight == 1
MaxPings == 3
MaxLfoBlocks == 5
MaxTicks == 1
MaxTracks == 2
MaxTrackMessages == 2
MaxCopies == 1
MaxClosures == 2

\* ---- program constants --------------------------------------------------
MAX_POLYPHONY == 8
CROSSFADE_DELAY_MS == 20
MIN_TRANSITION_TIME_MS == 30

SOURCE_KEYBOARD == 0
SOURCE_MOUSE == 1

Null == -1

\* the keys played: middle C, from the keyboard and with the mouse
Pairs == {<<SOURCE_KEYBOARD, 60>>, <<SOURCE_MOUSE, 60>>}
Velocities == {75}
ChangeEventTypes == {"activeinstrumentchange", "mutateinstrument", "pitchwheel", "modwheel"}

\* envelope breakpoints: times in ticks (a sample is TicksPerSample ticks), each
\* at or after its predecessor, and levels from 0 to 1
BreakpointSeconds == {0, 1, 6, 12}
BreakpointLevels ==
    <<{<<0, 1>>, <<1, 2>>}, {<<1, 1>>},
      {<<0, 1>>, <<1, 200>>, <<1, 2>>}, {<<0, 1>>, <<1, 2>>}>>
EnvelopeSources ==
    {src \in [1..4 -> [seconds : BreakpointSeconds,
                       level : UNION {BreakpointLevels[i] : i \in 1..4}]] :
        /\ \A i \in 1..3 : src[i].seconds <= src[i + 1].seconds
        /\ \A i \in 1..4 : src[i].level \in BreakpointLevels[i]}
EnvelopeTimes == {e * TicksPerSample : e \in 0..MaxElapsed}

\* the operators of an instrument
OPERATOR_NAMES == {"a", "b", "c", "d"}

\* an envelope node
Node(seconds, level) == [seconds |-> seconds, level |-> level]

\* an operator that is switched off, with the envelope a new instrument has
DisabledOperator ==
    [enabled |-> FALSE,
     envelope |-> <<Node(0, <<0, 1>>), Node(0, <<1, 1>>),
                    Node(TicksPerSample, <<1, 1>>), Node(TicksPerSample, <<0, 1>>)>>]

\* the instruments played: one operator with a decay and a release of two
\* blocks; two operators, one with a delay and an attack of a block each and one
\* whose release is 0 samples long; one operator whose sustain level is its
\* release-end level
Instruments ==
    {[opI \in OPERATOR_NAMES |->
         IF opI = "a"
         THEN [enabled |-> TRUE,
               envelope |-> <<Node(0, <<0, 1>>), Node(0, <<1, 1>>),
                              Node(2 * TicksPerSample, <<1, 2>>),
                              Node(6 * TicksPerSample, <<0, 1>>)>>]
         ELSE DisabledOperator],
     [opI \in OPERATOR_NAMES |->
         IF opI = "a"
         THEN [enabled |-> TRUE,
               envelope |-> <<Node(2 * TicksPerSample, <<0, 1>>),
                              Node(4 * TicksPerSample, <<1, 1>>),
                              Node(4 * TicksPerSample, <<1, 1>>),
                              Node(6 * TicksPerSample, <<0, 1>>)>>]
         ELSE IF opI = "b"
         THEN [enabled |-> TRUE,
               envelope |-> <<Node(0, <<0, 1>>), Node(0, <<1, 1>>),
                              Node(0, <<1, 1>>), Node(0, <<1, 1>>)>>]
         ELSE DisabledOperator],
     [opI \in OPERATOR_NAMES |->
         IF opI = "a"
         THEN [enabled |-> TRUE,
               envelope |-> <<Node(0, <<0, 1>>), Node(0, <<1, 2>>),
                              Node(0, <<1, 2>>), Node(2 * TicksPerSample, <<1, 2>>)>>]
         ELSE DisabledOperator]}

\* the samples the operators produce in a block: silence or a peak
OperatorSamples == {0, 1}

\* CROSSFADE_DELAY_MS in ticks: MIN_TRANSITION_TIME is TransitionSamples samples
CrossfadeTicks ==
    (CROSSFADE_DELAY_MS * TransitionSamples * TicksPerSample) \div MIN_TRANSITION_TIME_MS

\* the values of currentTime a processor is constructed at, and the time the
\* clock of the model is held at
ConstructTimes == {0, BlockSize * TicksPerSample}
ClockHorizon == MaxBlocks * BlockSize * TicksPerSample

VARIABLES
    currentTime,        \* ctx.currentTime, ms
    ctxState,           \* ctx.state: "suspended" | "running"
    listening,          \* the notedown/noteup listeners are registered (addModule resolved)
    nextVoiceKey,       \* Mixer.nextVoiceKey
    voices,             \* Mixer.voices: voice key -> Voice
    globalMuteValue,    \* Mixer.globalMuteValue
    toRecreate,         \* Mixer.toRecreate
    vp,                 \* MusicModel virtual pianos: the <<source, note>> pairs that are down
    mmGlobalMuteValue,  \* MusicModel.globalMuteValue
    changesSinceTick,   \* history: change events since the last 60 ms timer tick
    numEnded,           \* history: the number of voices whose renderer has ended
    lastOp,             \* history: the operation that produced this state
    env,                \* one Envelope of a VoiceProcessor
    envOp,              \* history: the Envelope operation that produced env
    proc,               \* one VoiceProcessor
    port,               \* the messages posted to the processor's port and not yet delivered
    posted,             \* history: the messages the control side has posted, by type
    procOp,             \* history: the operation that produced proc
    operators,          \* the operator stage of one VoiceProcessor
    operatorsOp,        \* history: the advanceOperators call that produced operators
    octaveOffsetValue,  \* MusicModel.octaveOffsetValue
    heard,              \* history: the pairs whose last note event was a notedown
    musicOp,            \* history: the MusicModel operation that produced this state
    activeInstrument,   \* InstrumentModel: instruments[activeInstrumentValue]
    instrumentOp,       \* history: the InstrumentModel operation that produced this state
    lfoProc,            \* the low-frequency oscillator of one VoiceProcessor
    lfoOp,              \* history: the operation that produced lfoProc
    midiTracks,         \* parseMidi: tracks, the messages of each track of the file
    mergedMessages,     \* parseMidi: mergedMessages
    instruments,        \* InstrumentModel.instruments, by name
    activeInstrumentValue,  \* InstrumentModel.activeInstrumentValue
    listOp,             \* history: the operation on the list of instruments that produced this state
    eventTarget,        \* the callbacks registered with the EventTarget of each model
    numClosures,        \* the arrow functions created so far
    listenerOp          \* history: the listener operation that produced this state

mvars == <<currentTime, ctxState, listening, nextVoiceKey, voices, globalMuteValue,
           toRecreate, vp, mmGlobalMuteValue, changesSinceTick, numEnded, lastOp>>

rvars == <<env, envOp>>

pvars == <<proc, port, posted, procOp>>

ovars == <<operators, operatorsOp>>

nvars == <<octaveOffsetValue, heard, musicOp>>

ivars == <<activeInstrument, instrumentOp>>

lvars == <<lfoProc, lfoOp>>

dvars == <<midiTracks, mergedMessages>>

svars == <<instruments, activeInstrumentValue, listOp>>

evars == <<eventTarget, numClosures, listenerOp>>

\* the parts of the program that are followed one at a time
xvars == <<lvars, dvars, svars, evars>>

vars == <<mvars, rvars, pvars, ovars, nvars, ivars, xvars>>

\* ---- helpers -------------------------------------------------------------

\* JavaScript `x || y` for x : number | null | undefined (0 is falsy)
OrElse(x, y) == IF x = Null \/ x = 0 THEN y ELSE x

Remove(f, k) == [j \in DOMAIN f \ {k} |-> f[j]]

Min(S) == CHOOSE x \in S : \A y \in S : x <= y

\* Object.keys(): integer-like keys in ascending numeric order
RECURSIVE ObjectKeys(_)
ObjectKeys(S) ==
    IF S = {} THEN <<>> ELSE <<Min(S)>> \o ObjectKeys(S \ {Min(S)})

\* lastOp of an operation that records nothing but its name
NoOp == [op |-> "none", source |-> Null, note |-> Null, key |-> Null,
         suspended |-> FALSE, before |-> <<>>, evicted |-> <<>>, dropped |-> <<>>,
         repl |-> <<>>, calls |-> 0, changes |-> 0, ending |-> FALSE]

\* ---- audioWorklet.ts: VoiceProcessor --------------------------------------

\* VoiceProcessor.constructor: the fields taken from the constructor arguments
VoiceProcessor(args, time) ==
    [note |-> args.note,
     velocity |-> args.velocity,
     noteDownTime |-> OrElse(args.noteDownTime, time),
     noteUpTime |-> args.noteUpTime,
     fadeInTime |-> OrElse(args.fadeInTime, time),
     portOpen |-> TRUE,
     endedPosts |-> 0]

\* port.postMessage({messageType: "ended"}) on the processor's port: a closed
\* (disentangled) port delivers nothing
PostEnded(v) ==
    IF v.node.portOpen
    THEN [v EXCEPT !.inbox = @ + 1, !.node.endedPosts = @ + 1]
    ELSE v

\* mutant of ProcessEnd: the processor forgets port.close()
ProcessEndNoClose(v, ending) ==
    IF ending THEN PostEnded(v) ELSE v

\* the tail of VoiceProcessor.process: `ending` is the disjunction of the
\* end-of-voice conditions computed for the block
ProcessEnd(v, ending) ==
    IF ending
    THEN [PostEnded(v) EXCEPT !.node.portOpen = FALSE]
    ELSE v

\* ---- mixer.ts: Voice -------------------------------------------------------

\* Voice.constructor
NewVoice(source, note, velocity, noteDownTime, noteUpTime, fadeInTime, time) ==
    [source |-> source,
     note |-> note,
     velocity |-> velocity,
     noteDownTime |-> OrElse(noteDownTime, time),
     noteUpTime |-> noteUpTime,
     fadeInTime |-> OrElse(fadeInTime, time),
     state |-> "sustaining",
     sentForceStop |-> FALSE,
     endCallback |-> FALSE,
     sent |-> <<>>,
     inbox |-> 0,
     node |-> VoiceProcessor([note |-> note, velocity |-> velocity,
                              noteDownTime |-> noteDownTime, noteUpTime |-> noteUpTime,
                              fadeInTime |-> fadeInTime], time)]

\* mutant of SetOnEnd: the end callback is never installed
SetOnEndNever(v, hasCallback) == [v EXCEPT !.endCallback = FALSE]

\* set onEnd
SetOnEnd(v, hasCallback) == [v EXCEPT !.endCallback = hasCallback]

\* mutant of VoiceRelease: the release does not record the note-up time
VoiceReleaseNoTime(v, time) ==
    IF v.state = "sustaining"
    THEN [v EXCEPT !.state = "released",
                   !.sent = Append(@, [messageType |-> "release", time |-> time])]
    ELSE v

\* Voice.release
VoiceRelease(v, time) ==
    IF v.state = "sustaining"
    THEN [v EXCEPT !.state = "released",
                   !.noteUpTime = time,
                   !.sent = Append(@, [messageType |-> "release", time |-> time])]
    ELSE v

\* mutant of VoiceForceStop: the forceStopTime argument is ignored
VoiceForceStopNow(v, forceStopTime, time) ==
    IF ~v.sentForceStop
    THEN [v EXCEPT !.sentForceStop = TRUE,
                   !.sent = Append(@, [messageType |-> "forceStop", time |-> time])]
    ELSE v

\* Voice.forceStop
VoiceForceStop(v, forceStopTime, time) ==
    IF ~v.sentForceStop
    THEN [v EXCEPT !.sentForceStop = TRUE,
                   !.sent = Append(@, [messageType |-> "forceStop",
                                       time |-> OrElse(forceStopTime, time)])]
    ELSE v

\* ---- mixer.ts: Mixer -------------------------------------------------------

\* mutant of FindOldest: of voices of one age the last is taken
RECURSIVE FindOldestLastTie(_, _, _, _)
FindOldestLastTie(vs, allVoiceKeys, i, oldestVoiceKey) ==
    IF i > Len(allVoiceKeys) THEN oldestVoiceKey
    ELSE FindOldestLastTie(vs, allVoiceKeys, i + 1,
            IF vs[allVoiceKeys[i]].noteDownTime <= vs[oldestVoiceKey].noteDownTime
            THEN allVoiceKeys[i] ELSE oldestVoiceKey)

\* mutant of FindOldest: the comparison is the wrong way round
RECURSIVE FindOldestFlipped(_, _, _, _)
FindOldestFlipped(vs, allVoiceKeys, i, oldestVoiceKey) ==
    IF i > Len(allVoiceKeys) THEN oldestVoiceKey
    ELSE FindOldestFlipped(vs, allVoiceKeys, i + 1,
            IF vs[allVoiceKeys[i]].noteDownTime > vs[oldestVoiceKey].noteDownTime
            THEN allVoiceKeys[i] ELSE oldestVoiceKey)

\* the inner for loop of onNoteDown: scan allVoiceKeys[i..] for a strictly older voice
RECURSIVE FindOldest(_, _, _, _)
FindOldest(vs, allVoiceKeys, i, oldestVoiceKey) ==
    IF i > Len(allVoiceKeys) THEN oldestVoiceKey
    ELSE FindOldest(vs, allVoiceKeys, i + 1,
            IF vs[allVoiceKeys[i]].noteDownTime < vs[oldestVoiceKey].noteDownTime
            THEN allVoiceKeys[i] ELSE oldestVoiceKey)

\* mutant of EnforcePolyphony: the loop condition is off by one
RECURSIVE EnforcePolyphonyOffByOne(_, _, _)
EnforcePolyphonyOffByOne(st, maxPolyphony, time) ==
    LET allVoiceKeys == ObjectKeys(DOMAIN st.voices) IN
    IF Len(allVoiceKeys) > maxPolyphony + 1
    THEN LET oldestVoiceKey == FindOldest(st.voices, allVoiceKeys, 2, allVoiceKeys[1])
             oldestVoice == VoiceForceStop(SetOnEnd(st.voices[oldestVoiceKey], FALSE),
                                           Null, time)
         IN  EnforcePolyphonyOffByOne(
                [voices |-> Remove(st.voices, oldestVoiceKey),
                 dropped |-> (oldestVoiceKey :> oldestVoice) @@ st.dropped,
                 evicted |-> Append(st.evicted,
                    [key |-> oldestVoiceKey,
                     noteDownTime |-> st.voices[oldestVoiceKey].noteDownTime,
                     present |-> {st.voices[k].noteDownTime : k \in DOMAIN st.voices}])],
                maxPolyphony, time)
    ELSE st

\* the while loop of onNoteDown, on st = [voices, dropped, evicted]
RECURSIVE EnforcePolyphony(_, _, _)
EnforcePolyphony(st, maxPolyphony, time) ==
    LET allVoiceKeys == ObjectKeys(DOMAIN st.voices) IN
    IF Len(allVoiceKeys) > maxPolyphony
    THEN LET oldestVoiceKey == FindOldest(st.voices, allVoiceKeys, 2, allVoiceKeys[1])
             oldestVoice == VoiceForceStop(SetOnEnd(st.voices[oldestVoiceKey], FALSE),
                                           Null, time)
         IN  EnforcePolyphony(
                [voices |-> Remove(st.voices, oldestVoiceKey),
                 dropped |-> (oldestVoiceKey :> oldestVoice) @@ st.dropped,
                 evicted |-> Append(st.evicted,
                    [key |-> oldestVoiceKey,
                     noteDownTime |-> st.voices[oldestVoiceKey].noteDownTime,
                     present |-> {st.voices[k].noteDownTime : k \in DOMAIN st.voices}])],
                maxPolyphony, time)
    ELSE st

\* Mixer.onNoteDown
OnNoteDown(source, note, velocity) ==
    IF globalMuteValue
    THEN /\ UNCHANGED <<nextVoiceKey, voices>>
         /\ lastOp' = [NoOp EXCEPT !.op = "onNoteDownMuted", !.source = source, !.note = note]
    ELSE LET voiceKey == nextVoiceKey
             voice == SetOnEnd(NewVoice(source, note, velocity, Null, Null, Null,
                                        currentTime), TRUE)
             maxPolyphony == IF ctxState = "suspended" THEN 1 ELSE MAX_POLYPHONY
             st == EnforcePolyphony([voices |-> (voiceKey :> voice) @@ voices,
                                     dropped |-> <<>>, evicted |-> <<>>],
                                    maxPolyphony, currentTime)
         IN  /\ nextVoiceKey' = nextVoiceKey + 1
             /\ voices' = st.voices
             /\ lastOp' = [NoOp EXCEPT !.op = "onNoteDown", !.source = source,
                                       !.note = note,
                                       !.suspended = (ctxState = "suspended"),
                                       !.evicted = st.evicted,
                                       !.dropped = st.dropped]

\* mutant of OnNoteUp: the source of the voice is not compared
OnNoteUpAnySource(vs, pairs, time) ==
    [k \in DOMAIN vs |->
        IF vs[k].note \in {p[2] : p \in pairs} THEN VoiceRelease(vs[k], time) ELSE vs[k]]

\* Mixer.onNoteUp, for each <<source, note>> of `pairs` in turn
OnNoteUp(vs, pairs, time) ==
    [k \in DOMAIN vs |->
        IF <<vs[k].source, vs[k].note>> \in pairs THEN VoiceRelease(vs[k], time) ELSE vs[k]]

\* Mixer.forceStopAllVoices: the voices after the loop, which are then dropped
ForceStopAllVoices(vs, time) ==
    [k \in DOMAIN vs |-> VoiceForceStop(SetOnEnd(vs[k], FALSE), Null, time)]

\* Mixer.recreateAllVoices, on st = [old, newVoices, nextVoiceKey, repl], one
\* iteration of the for loop per key of oldKeys[i..]
RECURSIVE RecreateLoop(_, _, _, _, _)
RecreateLoop(st, vs, oldKeys, i, time) ==
    IF i > Len(oldKeys) THEN st
    ELSE LET crossfadeStartTime == time + CROSSFADE_DELAY_MS
             oldVoiceKey == oldKeys[i]
             oldVoice == VoiceForceStop(SetOnEnd(vs[oldVoiceKey], FALSE),
                                        crossfadeStartTime, time)
             newVoiceKey == st.nextVoiceKey
             newVoice == SetOnEnd(NewVoice(oldVoice.source, oldVoice.note, oldVoice.velocity,
                                           oldVoice.noteDownTime, oldVoice.noteUpTime,
                                           crossfadeStartTime, time), TRUE)
         IN  RecreateLoop(
                IF oldVoice.state # "ended"
                THEN [old |-> (oldVoiceKey :> oldVoice) @@ st.old,
                      newVoices |-> (newVoiceKey :> newVoice) @@ st.newVoices,
                      nextVoiceKey |-> st.nextVoiceKey + 1,
                      repl |-> (oldVoiceKey :> newVoiceKey) @@ st.repl]
                ELSE [st EXCEPT !.old = (oldVoiceKey :> oldVoice) @@ @],
                vs, oldKeys, i + 1, time)

\* mutant of RecreateAllVoices: the stopped originals stay in the collection
RecreateAllVoicesKeepOld(vs, key, time) ==
    LET st == RecreateLoop([old |-> <<>>, newVoices |-> <<>>, nextVoiceKey |-> key,
                            repl |-> <<>>],
                           vs, ObjectKeys(DOMAIN vs), 1, time)
    IN  [st EXCEPT !.newVoices = st.newVoices @@ st.old]

\* Mixer.recreateAllVoices
RecreateAllVoices(vs, key, time) ==
    RecreateLoop([old |-> <<>>, newVoices |-> <<>>, nextVoiceKey |-> key, repl |-> <<>>],
                 vs, ObjectKeys(DOMAIN vs), 1, time)

\* ---- JavaScript numbers ------------------------------------------------------

\* A number that need not be whole is the fraction <<n, d>> in lowest terms with
\* d > 0; <<1, 0>> is Infinity, <<-1, 0>> is -Infinity and <<0, 0>> is NaN.
Abs(i) == IF i < 0 THEN -i ELSE i

Sign(i) == IF i < 0 THEN -1 ELSE IF i > 0 THEN 1 ELSE 0

Max(i, j) == IF i < j THEN j ELSE i

\* CHOOSE r \in {f(x) : x \in {a}} : TRUE is f(a) with a worked out once, as a
\* JavaScript expression is (inside ENABLED, TLC works out an argument or a LET
\* definition anew at every use).
RECURSIVE GCD(_, _)
GCD(a, b) == IF b = 0 THEN a ELSE CHOOSE r \in {GCD(b, m) : m \in {a % b}} : TRUE

Frac(n, d) ==
    IF d = 0 THEN <<Sign(n), 0>>
    ELSE LET g == GCD(Abs(n), Abs(d)) IN <<(Sign(d) * n) \div g, Abs(d) \div g>>

Whole(i) == <<i, 1>>

NaN == <<0, 0>>

IsNaN(x) == x = NaN

IsFinite(x) == x[2] # 0

\* x + y
Plus(a, b) ==
    CHOOSE r \in
        {IF IsFinite(x) /\ IsFinite(y) THEN Frac(x[1] * y[2] + y[1] * x[2], x[2] * y[2])
         ELSE IF IsNaN(x) \/ IsNaN(y) THEN NaN
         ELSE IF IsFinite(x) THEN y
         ELSE IF IsFinite(y) \/ x = y THEN x
         ELSE NaN : x \in {a}, y \in {b}} : TRUE

\* x * y
Times(a, b) == CHOOSE r \in {Frac(x[1] * y[1], x[2] * y[2]) : x \in {a}, y \in {b}} : TRUE

\* x - y
Minus(x, y) == Plus(x, Times(Whole(-1), y))

\* x / y (a zero divisor is +0)
Over(x, y) ==
    IF IsFinite(x) /\ IsFinite(y) THEN Frac(x[1] * y[2], x[2] * y[1])
    ELSE IF IsFinite(x) /\ ~IsNaN(y) THEN Whole(0)
    ELSE IF IsFinite(y) /\ ~IsNaN(x) THEN <<x[1] * (IF y[1] < 0 THEN -1 ELSE 1), 0>>
    ELSE NaN

\* x < y: false when either is NaN
Less(a, b) == \E x \in {a}, y \in {b} : x[1] * y[2] < y[1] * x[2]

\* Math.min and Math.max: NaN when either argument is NaN
MathMin(a, b) ==
    CHOOSE r \in {IF IsNaN(x) \/ IsNaN(y) THEN NaN ELSE IF Less(y, x) THEN y ELSE x :
                     x \in {a}, y \in {b}} : TRUE

MathMax(a, b) ==
    CHOOSE r \in {IF IsNaN(x) \/ IsNaN(y) THEN NaN ELSE IF Less(x, y) THEN y ELSE x :
                     x \in {a}, y \in {b}} : TRUE

MathAbs(x) == <<Abs(x[1]), x[2]>>

\* Math.round: the nearest whole number, halves rounded up
MathRound(x) ==
    IF IsFinite(x) THEN Whole((2 * x[1] + x[2]) \div (2 * x[2])) ELSE x

\* a sample count that is NaN
NaNSamples == -2

\* a whole JavaScript number as a sample count
ToSamples(x) == IF IsNaN(x) THEN NaNSamples ELSE x[1]

\* ---- audioWorklet.ts: Envelope -------------------------------------------------

\* Math.round(seconds * sampleRate), for a time of `ticks` ticks
SecondsToSamples(ticks) == ToSamples(MathRound(Frac(ticks, TicksPerSample)))

\* MAX_DAMPED_CHANGE_PER_SAMPLE
MAX_DAMPED_CHANGE_PER_SAMPLE == Frac(1, TransitionSamples)

\* the hacky workaround of Envelope.release: both differences are under 0.01
NearZero(x) == Less(MathAbs(x), Frac(1, 100))

\* Envelope.constructor, first part: the source envelope deconstructed
EnvelopeFields(src) ==
    LET attackSamples == SecondsToSamples(src[2].seconds - src[1].seconds)
        decaySamples == SecondsToSamples(src[3].seconds - src[2].seconds)
        nominalReleaseSamples == SecondsToSamples(src[4].seconds - src[3].seconds)
    IN  [delaySamples |-> SecondsToSamples(src[1].seconds),
         attackStartLevel |-> src[1].level,
         attackSamples |-> attackSamples,
         decayStartLevel |-> src[2].level,
         decaySamples |-> decaySamples,
         sustainLevel |-> src[3].level,
         nominalReleaseSamples |-> nominalReleaseSamples,
         releaseEndLevel |-> src[4].level,
         attackLevelInc |-> Over(Minus(src[2].level, src[1].level),
                                 Whole(Max(1, attackSamples))),
         decayLevelInc |-> Over(Minus(src[3].level, src[2].level),
                                Whole(Max(1, decaySamples))),
         nominalReleaseLevelInc |-> Over(Minus(src[4].level, src[3].level),
                                         Whole(Max(1, nominalReleaseSamples)))]

\* Envelope.constructor, second part: seek to elapsedSamples as if not released
EnvelopeSeek(f, elapsedSamples) ==
    IF elapsedSamples < f.delaySamples
    THEN [state |-> "delay", samplesToNextState |-> f.delaySamples - elapsedSamples,
          level |-> Whole(0), levelInc |-> Whole(0)]
    ELSE IF elapsedSamples < f.delaySamples + f.attackSamples
    THEN LET progress == Frac(elapsedSamples - f.delaySamples, f.attackSamples) IN
         [state |-> "attack",
          samplesToNextState |->
              ToSamples(MathRound(Times(Minus(Whole(1), progress), Whole(f.attackSamples)))),
          level |-> Plus(f.attackStartLevel,
                         Times(Minus(f.decayStartLevel, f.attackStartLevel), progress)),
          levelInc |-> f.attackLevelInc]
    ELSE IF elapsedSamples < f.delaySamples + f.attackSamples + f.decaySamples
    THEN LET progress == Frac(elapsedSamples - (f.delaySamples + f.attackSamples),
                              f.decaySamples) IN
         [state |-> "decay",
          samplesToNextState |->
              ToSamples(MathRound(Times(Minus(Whole(1), progress), Whole(f.decaySamples)))),
          level |-> Plus(f.decayStartLevel,
                         Times(Minus(f.sustainLevel, f.decayStartLevel), progress)),
          levelInc |-> f.decayLevelInc]
    ELSE [state |-> "sustain", samplesToNextState |-> Null,
          level |-> f.sustainLevel, levelInc |-> Whole(0)]

\* mutant of EnvelopeRelease: the workaround for the divide-zero-by-zero is left out
EnvelopeReleaseNoWorkaround(e, noteUpTime) ==
    IF e.state = "release" \/ e.state = "finished" THEN e
    ELSE IF e.nominalReleaseSamples = 0
    THEN [e EXCEPT !.state = "finished", !.samplesToNextState = Null,
                   !.level = Whole(0), !.levelInc = Whole(0)]
    ELSE IF Less(Whole(0), e.nominalReleaseLevelInc)
    THEN [e EXCEPT !.state = "release", !.samplesToNextState = e.nominalReleaseSamples,
                   !.level = e.sustainLevel, !.levelInc = e.nominalReleaseLevelInc]
    ELSE IF Less(e.sustainLevel, e.level)
    THEN [e EXCEPT !.state = "release", !.samplesToNextState = e.nominalReleaseSamples,
                   !.levelInc = Over(Minus(e.releaseEndLevel, e.level),
                                     Whole(e.nominalReleaseSamples))]
    ELSE LET difference == Minus(e.releaseEndLevel, e.level)
             nominalDifference == Minus(e.releaseEndLevel, e.sustainLevel)
             samplesToNextState ==
                 ToSamples(MathRound(Times(Whole(e.nominalReleaseSamples),
                     MathMax(Whole(0),
                             MathMin(Whole(1), Over(difference, nominalDifference))))))
         IN  [e EXCEPT !.state = "release", !.samplesToNextState = samplesToNextState,
                       !.levelInc = IF samplesToNextState = NaNSamples THEN NaN
                                    ELSE Over(difference, Whole(Max(1, samplesToNextState)))]

\* mutant of EnvelopeRelease: a release from above the sustain level keeps the
\* nominal slope
EnvelopeReleaseNominalSlope(e, noteUpTime) ==
    IF e.state = "release" \/ e.state = "finished" THEN e
    ELSE IF e.nominalReleaseSamples = 0
    THEN [e EXCEPT !.state = "finished", !.samplesToNextState = Null,
                   !.level = Whole(0), !.levelInc = Whole(0)]
    ELSE IF Less(Whole(0), e.nominalReleaseLevelInc)
    THEN [e EXCEPT !.state = "release", !.samplesToNextState = e.nominalReleaseSamples,
                   !.level = e.sustainLevel, !.levelInc = e.nominalReleaseLevelInc]
    ELSE IF Less(e.sustainLevel, e.level)
    THEN [e EXCEPT !.state = "release", !.samplesToNextState = e.nominalReleaseSamples,
                   !.levelInc = e.nominalReleaseLevelInc]
    ELSE LET difference == Minus(e.releaseEndLevel, e.level)
             nominalDifference == Minus(e.releaseEndLevel, e.sustainLevel)
             samplesToNextState ==
                 IF NearZero(difference) /\ NearZero(nominalDifference)
                 THEN e.nominalReleaseSamples
                 ELSE ToSamples(MathRound(Times(Whole(e.nominalReleaseSamples),
                          MathMax(Whole(0),
                                  MathMin(Whole(1), Over(difference, nominalDifference))))))
         IN  [e EXCEPT !.state = "release", !.samplesToNextState = samplesToNextState,
                       !.levelInc = IF samplesToNextState = NaNSamples THEN NaN
                                    ELSE Over(difference, Whole(Max(1, samplesToNextState)))]

\* mutant of EnvelopeRelease: the state is not looked at
EnvelopeReleaseAgain(e, noteUpTime) ==
    IF e.nominalReleaseSamples = 0
    THEN [e EXCEPT !.state = "finished", !.samplesToNextState = Null,
                   !.level = Whole(0), !.levelInc = Whole(0)]
    ELSE IF Less(Whole(0), e.nominalReleaseLevelInc)
    THEN [e EXCEPT !.state = "release", !.samplesToNextState = e.nominalReleaseSamples,
                   !.level = e.sustainLevel, !.levelInc = e.nominalReleaseLevelInc]
    ELSE IF Less(e.sustainLevel, e.level)
    THEN [e EXCEPT !.state = "release", !.samplesToNextState = e.nominalReleaseSamples,
                   !.levelInc = Over(Minus(e.releaseEndLevel, e.level),
                                     Whole(e.nominalReleaseSamples))]
    ELSE LET difference == Minus(e.releaseEndLevel, e.level)
             nominalDifference == Minus(e.releaseEndLevel, e.sustainLevel)
             samplesToNextState ==
                 IF NearZero(difference) /\ NearZero(nominalDifference)
                 THEN e.nominalReleaseSamples
                 ELSE ToSamples(MathRound(Times(Whole(e.nominalReleaseSamples),
                          MathMax(Whole(0),
                                  MathMin(Whole(1), Over(difference, nominalDifference))))))
         IN  [e EXCEPT !.state = "release", !.samplesToNextState = samplesToNextState,
                       !.levelInc = IF samplesToNextState = NaNSamples THEN NaN
                                    ELSE Over(difference, Whole(Max(1, samplesToNextState)))]

\* Envelope.release: noteUpTime is not read
EnvelopeRelease(e, noteUpTime) ==
    IF e.state = "release" \/ e.state = "finished" THEN e
    ELSE IF e.nominalReleaseSamples = 0
    THEN [e EXCEPT !.state = "finished", !.samplesToNextState = Null,
                   !.level = Whole(0), !.levelInc = Whole(0)]
    ELSE IF Less(Whole(0), e.nominalReleaseLevelInc)
    THEN [e EXCEPT !.state = "release", !.samplesToNextState = e.nominalReleaseSamples,
                   !.level = e.sustainLevel, !.levelInc = e.nominalReleaseLevelInc]
    ELSE IF Less(e.sustainLevel, e.level)
    THEN [e EXCEPT !.state = "release", !.samplesToNextState = e.nominalReleaseSamples,
                   !.levelInc = Over(Minus(e.releaseEndLevel, e.level),
                                     Whole(e.nominalReleaseSamples))]
    ELSE LET difference == Minus(e.releaseEndLevel, e.level)
             nominalDifference == Minus(e.releaseEndLevel, e.sustainLevel)
             samplesToNextState ==
                 IF NearZero(difference) /\ NearZero(nominalDifference)
                 THEN e.nominalReleaseSamples
                 ELSE ToSamples(MathRound(Times(Whole(e.nominalReleaseSamples),
                          MathMax(Whole(0),
                                  MathMin(Whole(1), Over(difference, nominalDifference))))))
         IN  [e EXCEPT !.state = "release", !.samplesToNextState = samplesToNextState,
                       !.levelInc = IF samplesToNextState = NaNSamples THEN NaN
                                    ELSE Over(difference, Whole(Max(1, samplesToNextState)))]

\* Envelope.constructor, third part: a note released at or before `time`
EnvelopeSeekRelease(e, noteUpTime, time) ==
    LET r == EnvelopeRelease(e, noteUpTime)
        elapsedReleaseSamples == Max(0, SecondsToSamples(time - noteUpTime))
        currentLevel == Plus(r.level, Times(Whole(elapsedReleaseSamples), r.levelInc))
        samples == MathMin(MathRound(Over(Minus(r.releaseEndLevel, currentLevel), r.levelInc)),
                           Whole(r.nominalReleaseSamples))
    IN  IF Less(r.releaseEndLevel, currentLevel) \/ Less(Whole(0), r.levelInc)
        THEN [r EXCEPT !.state = "release",
                       !.samplesToNextState = ToSamples(MathMax(Whole(0), samples)),
                       !.level = currentLevel]
        ELSE [r EXCEPT !.state = "finished", !.samplesToNextState = Null,
                       !.level = Whole(0), !.levelInc = Whole(0)]

\* mutant of Envelope: the seek is one sample late
EnvelopeSeekLate(src, enabled, noteDownTime, noteUpTime, time) ==
    LET f == EnvelopeFields(src)
        elapsedSamples == Max(0, SecondsToSamples(time - noteDownTime))
        sought == f @@ EnvelopeSeek(f, elapsedSamples - 1)
    IN  sought @@ [dampedLevel |-> IF elapsedSamples = 0 THEN Whole(0) ELSE sought.level]

\* Envelope.constructor
Envelope(src, enabled, noteDownTime, noteUpTime, time) ==
    LET f == EnvelopeFields(src)
        elapsedSamples == Max(0, SecondsToSamples(time - noteDownTime))
        sought == f @@ EnvelopeSeek(f, elapsedSamples)
        released == IF noteUpTime # Null /\ time >= noteUpTime
                    THEN EnvelopeSeekRelease(sought, noteUpTime, time)
                    ELSE sought
        damped == released @@
                  [dampedLevel |-> IF elapsedSamples = 0 THEN Whole(0) ELSE released.level]
    IN  IF enabled THEN damped
        ELSE [damped EXCEPT !.state = "finished", !.samplesToNextState = Null,
                            !.level = Whole(0), !.levelInc = Whole(0),
                            !.dampedLevel = Whole(0)]

\* mutant of EnvelopeNextState: entering sustain leaves a sample count of 0
EnvelopeNextStateCounted(e) ==
    IF e.state = "delay"
    THEN [e EXCEPT !.state = "attack", !.samplesToNextState = e.attackSamples,
                   !.level = e.attackStartLevel, !.levelInc = e.attackLevelInc]
    ELSE IF e.state = "attack"
    THEN [e EXCEPT !.state = "decay", !.samplesToNextState = e.decaySamples,
                   !.level = e.decayStartLevel, !.levelInc = e.decayLevelInc]
    ELSE IF e.state = "decay"
    THEN [e EXCEPT !.state = "sustain", !.samplesToNextState = 0,
                   !.level = e.sustainLevel, !.levelInc = Whole(0)]
    ELSE [e EXCEPT !.state = "finished", !.samplesToNextState = Null,
                   !.level = Whole(0), !.levelInc = Whole(0)]

\* the switch of Envelope.advanceBy: the envelope enters its next state
EnvelopeNextState(e) ==
    IF e.state = "delay"
    THEN [e EXCEPT !.state = "attack", !.samplesToNextState = e.attackSamples,
                   !.level = e.attackStartLevel, !.levelInc = e.attackLevelInc]
    ELSE IF e.state = "attack"
    THEN [e EXCEPT !.state = "decay", !.samplesToNextState = e.decaySamples,
                   !.level = e.decayStartLevel, !.levelInc = e.decayLevelInc]
    ELSE IF e.state = "decay"
    THEN [e EXCEPT !.state = "sustain", !.samplesToNextState = Null,
                   !.level = e.sustainLevel, !.levelInc = Whole(0)]
    ELSE [e EXCEPT !.state = "finished", !.samplesToNextState = Null,
                   !.level = Whole(0), !.levelInc = Whole(0)]

\* the while loop of Envelope.advanceBy, on st = [e, samplesRemaining]
RECURSIVE AdvanceLoop(_)
AdvanceLoop(st) ==
    IF /\ st.e.samplesToNextState # Null
       /\ st.e.samplesToNextState # NaNSamples
       /\ st.e.samplesToNextState < st.samplesRemaining
    THEN CHOOSE r \in
             {AdvanceLoop(next) :
                 next \in {[e |-> EnvelopeNextState(st.e),
                            samplesRemaining |->
                                st.samplesRemaining - st.e.samplesToNextState]}} : TRUE
    ELSE st

\* the while loop of Envelope.advanceBy reaches `throw new Error("unreachable code")`
RECURSIVE AdvanceLoopThrows(_)
AdvanceLoopThrows(st) ==
    /\ st.e.samplesToNextState # Null
    /\ st.e.samplesToNextState # NaNSamples
    /\ st.e.samplesToNextState < st.samplesRemaining
    /\ \/ st.e.state \in {"sustain", "finished"}
       \/ \E next \in {[e |-> EnvelopeNextState(st.e),
                         samplesRemaining |->
                             st.samplesRemaining - st.e.samplesToNextState]} :
              AdvanceLoopThrows(next)

\* mutant of Damp: a damped level above the level stays where it is
DampStuck(envelope, numSamples) ==
    CHOOSE r \in
        {IF Less(e.dampedLevel, e.level)
         THEN [e EXCEPT !.dampedLevel = MathMin(Plus(e.dampedLevel, change), e.level)]
         ELSE e :
            e \in {envelope},
            change \in {Times(MAX_DAMPED_CHANGE_PER_SAMPLE, Whole(numSamples))}} : TRUE

\* the damping of Envelope.advanceBy
Damp(envelope, numSamples) ==
    CHOOSE r \in
        {IF Less(e.dampedLevel, e.level)
         THEN [e EXCEPT !.dampedLevel = MathMin(Plus(e.dampedLevel, change), e.level)]
         ELSE IF Less(e.level, e.dampedLevel)
         THEN [e EXCEPT !.dampedLevel = MathMax(Minus(e.dampedLevel, change), e.level)]
         ELSE [e EXCEPT !.dampedLevel = e.level] :
            e \in {envelope},
            change \in {Times(MAX_DAMPED_CHANGE_PER_SAMPLE, Whole(numSamples))}} : TRUE

\* mutant of AdvanceBy: the samples spent in the states left behind are not
\* taken off samplesRemaining
AdvanceByNoCarry(e, numSamples) ==
    CHOOSE r \in
        {Damp([st.e EXCEPT
                  !.level = Plus(@, Times(st.e.levelInc, Whole(numSamples))),
                  !.samplesToNextState =
                      IF @ = Null \/ @ = NaNSamples THEN @ ELSE @ - numSamples],
              numSamples) :
            st \in {AdvanceLoop([e |-> e, samplesRemaining |-> numSamples])}} : TRUE

\* Envelope.advanceBy
AdvanceBy(e, numSamples) ==
    CHOOSE r \in
        {Damp([st.e EXCEPT
                  !.level = Plus(@, Times(st.e.levelInc, Whole(st.samplesRemaining))),
                  !.samplesToNextState =
                      IF @ = Null \/ @ = NaNSamples THEN @ ELSE @ - st.samplesRemaining],
              numSamples) :
            st \in {AdvanceLoop([e |-> e, samplesRemaining |-> numSamples])}} : TRUE

\* ---- audioWorklet.ts: the VoiceProcessor in detail ---------------------------------

\* mono.length / sampleRate, in ticks
BlockTicks == BlockSize * TicksPerSample

\* MAX_VOLUME
MAX_VOLUME == Frac(1, 32)

\* VoiceProcessor.fadeRate
FadeRate == Over(MAX_VOLUME, Whole(TransitionSamples))

\* VoiceProcessor.constructor and the field initialisers, at currentTime = time;
\* punctual, fadeOutBlocks, pingLog and rendered are history
NewVoiceProcessor(args, time) ==
    LET noteDownTime == OrElse(args.noteDownTime, time) IN
    [time |-> time,
     noteDownTime |-> noteDownTime,
     noteUpTime |-> args.noteUpTime,
     fadeInTime |-> OrElse(args.fadeInTime, time),
     fadeOutTime |-> Null,
     envelopes |-> [opI \in OPERATOR_NAMES |->
                       Envelope(args.instrument[opI].envelope,
                                args.instrument[opI].enabled,
                                noteDownTime, args.noteUpTime, time)],
     fadeGain |-> Whole(0),
     samplesSinceLastPing |-> Null,
     audioStarvedPings |-> 0,
     portOpen |-> TRUE,
     endedPosts |-> 0,
     punctual |-> <<>>,
     fadeOutBlocks |-> 0,
     pingLog |-> <<>>,
     rendered |-> 0]

\* the "message" listener of the VoiceProcessor: release
OnRelease(p, data) ==
    [p EXCEPT !.noteUpTime = data.noteUpTime,
              !.envelopes = [opI \in OPERATOR_NAMES |->
                                EnvelopeRelease(p.envelopes[opI], data.noteUpTime)]]

\* the "message" listener of the VoiceProcessor: forceStop
OnForceStop(p, data) == [p EXCEPT !.fadeOutTime = data.forceStopTime]

\* mutant of OnPing: samplesSinceLastPing is not tested for null
OnPingCountsFirst(p, data) ==
    [p EXCEPT !.audioStarvedPings =
                  IF 2 * p.samplesSinceLastPing < PingExpectedSamples
                  THEN @ + 1 ELSE 0,
              !.samplesSinceLastPing = 0]

\* the "message" listener of the VoiceProcessor: ping
OnPing(p, data) ==
    [p EXCEPT !.audioStarvedPings =
                  IF /\ p.samplesSinceLastPing # Null
                     /\ 2 * p.samplesSinceLastPing < PingExpectedSamples
                  THEN @ + 1 ELSE 0,
              !.samplesSinceLastPing = 0]

\* the "message" listener of the VoiceProcessor
OnMessage(p, data) ==
    IF data.messageType = "release" THEN OnRelease(p, data)
    ELSE IF data.messageType = "forceStop" THEN OnForceStop(p, data)
    ELSE IF data.messageType = "ping" THEN OnPing(p, data)
    ELSE p

\* mutant of FadeGain: the fade is not held back until fadeInTime
FadeGainUnguarded(p, endTime) ==
    IF p.fadeOutTime # Null /\ endTime >= p.fadeOutTime
    THEN [fadingOut |-> TRUE,
          fadeGain |-> MathMax(Whole(0), Minus(p.fadeGain, Times(FadeRate, Whole(BlockSize))))]
    ELSE [fadingOut |-> FALSE,
          fadeGain |-> MathMin(Plus(p.fadeGain, Times(FadeRate, Whole(BlockSize))), MAX_VOLUME)]

\* mutant of FadeGain: the fade-out takes one fadeRate off a block, not one a sample
FadeGainSlow(p, endTime) ==
    IF endTime >= p.fadeInTime
    THEN IF p.fadeOutTime # Null /\ endTime >= p.fadeOutTime
         THEN [fadingOut |-> TRUE,
               fadeGain |-> MathMax(Whole(0), Minus(p.fadeGain, FadeRate))]
         ELSE [fadingOut |-> FALSE,
               fadeGain |-> MathMin(Plus(p.fadeGain, Times(FadeRate, Whole(BlockSize))),
                                    MAX_VOLUME)]
    ELSE [fadingOut |-> FALSE, fadeGain |-> p.fadeGain]

\* process(): fadingOut and the fade gain at the end of the block
FadeGain(p, endTime) ==
    IF endTime >= p.fadeInTime
    THEN IF p.fadeOutTime # Null /\ endTime >= p.fadeOutTime
         THEN [fadingOut |-> TRUE,
               fadeGain |-> MathMax(Whole(0),
                                    Minus(p.fadeGain, Times(FadeRate, Whole(BlockSize))))]
         ELSE [fadingOut |-> FALSE,
               fadeGain |-> MathMin(Plus(p.fadeGain, Times(FadeRate, Whole(BlockSize))),
                                    MAX_VOLUME)]
    ELSE [fadingOut |-> FALSE, fadeGain |-> p.fadeGain]

\* process(): the samples written to mono, from the samples of the operators
Mono(samples, startFadeGain, endFadeGain) ==
    CHOOSE r \in
        {[i \in 1..BlockSize |->
             Times(Whole(samples[i]), Plus(startFadeGain, Times(Whole(i - 1), fadeGainInc)))] :
            fadeGainInc \in {Times(Minus(endFadeGain, startFadeGain),
                                   Frac(1, BlockSize))}} : TRUE

\* mutant of AllEnvelopesFinished: the damped level is not looked at
AllEnvelopesFinishedUndamped(envelopes) ==
    \A opI \in OPERATOR_NAMES : envelopes[opI].state = "finished"

\* process(): allEnvelopesFinished
AllEnvelopesFinished(envelopes) ==
    \A opI \in OPERATOR_NAMES :
        ~(envelopes[opI].state # "finished"
          \/ envelopes[opI].dampedLevel # envelopes[opI].level)

\* mutant of ProcessCall: the main thread is never taken to be stalled
ProcessCallNeverStalled(p, samples) ==
    CHOOSE r \in {
    LET startTime == p.time
        endTime == startTime + BlockTicks
        fadedOut == fade.fadingOut
                    /\ (Less(fade.fadeGain, Whole(0)) \/ fade.fadeGain = Whole(0))
        allEnvelopesFinished == AllEnvelopesFinished(envelopes)
        samplesSinceLastPing ==
            IF p.samplesSinceLastPing # Null THEN p.samplesSinceLastPing + BlockSize
            ELSE Null
        stalled == FALSE
        starved == p.audioStarvedPings >= 2
        ending == fadedOut \/ allEnvelopesFinished \/ stalled \/ starved
    IN  [after |-> [p EXCEPT !.fadeGain = fade.fadeGain,
                             !.envelopes = envelopes,
                             !.samplesSinceLastPing = samplesSinceLastPing,
                             !.endedPosts = IF ending /\ p.portOpen THEN @ + 1 ELSE @,
                             !.portOpen = IF ending THEN FALSE ELSE @,
                             !.punctual = [opI \in DOMAIN p.punctual |->
                                              AdvanceBy(p.punctual[opI], BlockSize)],
                             !.fadeOutBlocks = IF fade.fadingOut THEN @ + 1 ELSE @],
         op |-> [op |-> "process", startTime |-> startTime, endTime |-> endTime,
                 startFadeGain |-> p.fadeGain, endFadeGain |-> fade.fadeGain,
                 fadingOut |-> fade.fadingOut,
                 samples |-> samples,
                 mono |-> Mono(samples, p.fadeGain, fade.fadeGain),
                 fadedOut |-> fadedOut, allEnvelopesFinished |-> allEnvelopesFinished,
                 stalled |-> stalled, starved |-> starved, ending |-> ending]] :
        fade \in {FadeGain(p, p.time + BlockTicks)},
        envelopes \in {[opI \in OPERATOR_NAMES |-> AdvanceBy(p.envelopes[opI], BlockSize)]}
    } : TRUE

\* process(): one block rendered at currentTime = p.time; `after` is the processor
\* when process() returns and `op` what the call did
ProcessCall(p, samples) ==
    CHOOSE r \in {
    LET startTime == p.time
        endTime == startTime + BlockTicks
        fadedOut == fade.fadingOut
                    /\ (Less(fade.fadeGain, Whole(0)) \/ fade.fadeGain = Whole(0))
        allEnvelopesFinished == AllEnvelopesFinished(envelopes)
        samplesSinceLastPing ==
            IF p.samplesSinceLastPing # Null THEN p.samplesSinceLastPing + BlockSize
            ELSE Null
        stalled == /\ samplesSinceLastPing # Null
                   /\ samplesSinceLastPing >= PingExpectedSamples * 2
        starved == p.audioStarvedPings >= 2
        ending == fadedOut \/ allEnvelopesFinished \/ stalled \/ starved
    IN  [after |-> [p EXCEPT !.fadeGain = fade.fadeGain,
                             !.envelopes = envelopes,
                             !.samplesSinceLastPing = samplesSinceLastPing,
                             !.endedPosts = IF ending /\ p.portOpen THEN @ + 1 ELSE @,
                             !.portOpen = IF ending THEN FALSE ELSE @,
                             !.punctual = [opI \in DOMAIN p.punctual |->
                                              AdvanceBy(p.punctual[opI], BlockSize)],
                             !.fadeOutBlocks = IF fade.fadingOut THEN @ + 1 ELSE @],
         op |-> [op |-> "process", startTime |-> startTime, endTime |-> endTime,
                 startFadeGain |-> p.fadeGain, endFadeGain |-> fade.fadeGain,
                 fadingOut |-> fade.fadingOut,
                 samples |-> samples,
                 mono |-> Mono(samples, p.fadeGain, fade.fadeGain),
                 fadedOut |-> fadedOut, allEnvelopesFinished |-> allEnvelopesFinished,
                 stalled |-> stalled, starved |-> starved, ending |-> ending]] :
        fade \in {FadeGain(p, p.time + BlockTicks)},
        envelopes \in {[opI \in OPERATOR_NAMES |-> AdvanceBy(p.envelopes[opI], BlockSize)]}
    } : TRUE

\* ---- audioWorklet.ts: the variations of advanceOperators ---------------------

\* x <= y: false when either is NaN
AtMost(a, b) ==
    \E x \in {a}, y \in {b} : ~IsNaN(x) /\ ~IsNaN(y) /\ x[1] * y[2] <= y[1] * x[2]

\* a Variation; a slot of instrument.variations that is null is NullVariation
Variation(input, inputFrom, inputTo, output, outputFrom, outputTo) ==
    [input |-> input, inputFrom |-> inputFrom, inputTo |-> inputTo,
     output |-> output, outputFrom |-> outputFrom, outputTo |-> outputTo]

NullVariation == [null |-> TRUE]

IsNullVariation(variation) == "null" \in DOMAIN variation

\* the switch on variation.input
InputValue(p, variation, lfo) ==
    IF variation.input = "note" THEN p.note
    ELSE IF variation.input = "velocity" THEN p.velocity
    ELSE IF variation.input = "lfo" THEN lfo
    ELSE IF variation.input = "mod" THEN p.modWheel
    ELSE Whole(0)

\* mutant of Ratio: the input is measured from inputTo
RatioFromTo(inputFrom, inputTo, inputValue) ==
    IF Less(inputFrom, inputTo)
    THEN IF AtMost(inputValue, inputFrom) THEN Whole(0)
         ELSE IF AtMost(inputTo, inputValue) THEN Whole(1)
         ELSE Over(Minus(inputValue, inputFrom), Minus(inputTo, inputFrom))
    ELSE IF AtMost(inputValue, inputTo) THEN Whole(0)
         ELSE IF AtMost(inputFrom, inputValue) THEN Whole(1)
         ELSE Over(Minus(inputValue, inputTo), Minus(inputFrom, inputTo))

\* the ratio of advanceOperators
Ratio(inputFrom, inputTo, inputValue) ==
    IF Less(inputFrom, inputTo)
    THEN IF AtMost(inputValue, inputFrom) THEN Whole(0)
         ELSE IF AtMost(inputTo, inputValue) THEN Whole(1)
         ELSE Over(Minus(inputValue, inputFrom), Minus(inputTo, inputFrom))
    ELSE IF AtMost(inputValue, inputTo) THEN Whole(0)
         ELSE IF AtMost(inputFrom, inputValue) THEN Whole(1)
         ELSE Over(Minus(inputValue, inputFrom), Minus(inputTo, inputFrom))

\* outputMul
OutputMul(variation, ratio) ==
    Plus(variation.outputFrom, Times(Minus(variation.outputTo, variation.outputFrom), ratio))

\* one pass of the body of the loop over the variations, on
\* st = [i, lfo, opScratchPost, applied]; applied is the history of the passes
ApplyVariation(p, variation, st) ==
    LET inputValue == InputValue(p, variation, st.lfo)
        ratio == Ratio(variation.inputFrom, variation.inputTo, inputValue)
        outputMul == OutputMul(variation, ratio)
    IN  [i |-> st.i + 1,
         lfo |-> IF variation.output = "lfo" THEN Times(st.lfo, outputMul) ELSE st.lfo,
         opScratchPost |->
             [opI \in OPERATOR_NAMES |->
                 IF variation.output = opI THEN Times(st.opScratchPost[opI], outputMul)
                 ELSE st.opScratchPost[opI]],
         applied |-> Append(st.applied,
                            [index |-> st.i, inputValue |-> inputValue, ratio |-> ratio,
                             outputMul |-> outputMul])]

\* mutant of VariationLoop: a null entry is passed over
RECURSIVE VariationLoopPastNull(_, _)
VariationLoopPastNull(p, st) ==
    IF st.i > Len(p.variations) THEN st
    ELSE IF IsNullVariation(p.variations[st.i])
    THEN VariationLoopPastNull(p, [st EXCEPT !.i = @ + 1])
    ELSE VariationLoopPastNull(p, ApplyVariation(p, p.variations[st.i], st))

\* the loop over this.instrument.variations, which the first null entry breaks
RECURSIVE VariationLoop(_, _)
VariationLoop(p, st) ==
    IF st.i > Len(p.variations) \/ IsNullVariation(p.variations[st.i]) THEN st
    ELSE VariationLoop(p, ApplyVariation(p, p.variations[st.i], st))

\* the mix of the operators' outputs
RECURSIVE MixedSample(_, _, _)
MixedSample(p, lastOpOutputsPost, names) ==
    IF names = <<>> THEN Whole(0)
    ELSE Plus(Times(lastOpOutputsPost[Head(names)], p.outputLevel[Head(names)]),
              MixedSample(p, lastOpOutputsPost, Tail(names)))

\* VoiceProcessor.advanceOperators(lfo, envelopeGains), from the signals of the
\* operators (opScratchPost as the first loop leaves it) on
AdvanceOperators(p, lfo, opScratchPost) ==
    LET st == VariationLoop(p, [i |-> 1, lfo |-> lfo, opScratchPost |-> opScratchPost,
                                applied |-> <<>>])
    IN  [after |-> [p EXCEPT !.lastOpOutputsPost = st.opScratchPost],
         op |-> [op |-> "advanceOperators", lfo |-> lfo, opScratchPost |-> opScratchPost,
                 applied |-> st.applied, lfoAfter |-> st.lfo,
                 mixedSample |-> MixedSample(p, st.opScratchPost, <<"a", "b", "c", "d">>)]]

\* ---- musicModel.ts: the MusicModel in detail ---------------------------------------

LOWEST_NOTE == 21
NUM_NOTES == 93
SOURCE_DEMO == 2
SOURCE_MIDI == 3
KEYBOARD_VELOCITY == 75

\* a MusicModel is m = [vp, globalMuteValue, octaveOffsetValue, events]: vp is the
\* four virtual pianos as the set of the <<source, note>> that are true, and events
\* the NoteEvents dispatched so far by the operation under way
NoteEvent(source, note, velocity, down) ==
    [type |-> IF down THEN "notedown" ELSE "noteup", source |-> source, note |-> note,
     velocity |-> velocity]

OutOfRange(note) == note < LOWEST_NOTE \/ note >= LOWEST_NOTE + NUM_NOTES

\* mutant of MusicPressNote: the virtual piano is not looked at
MusicPressNoteUnchecked(m, source, note, velocity) ==
    IF OutOfRange(note) \/ m.globalMuteValue THEN m
    ELSE [m EXCEPT !.vp = @ \cup {<<source, note>>},
                   !.events = Append(@, NoteEvent(source, note, velocity, TRUE))]

\* MusicModel.pressNote
MusicPressNote(m, source, note, velocity) ==
    IF OutOfRange(note) THEN m
    ELSE IF m.globalMuteValue THEN m
    ELSE IF <<source, note>> \notin m.vp
    THEN [m EXCEPT !.vp = @ \cup {<<source, note>>},
                   !.events = Append(@, NoteEvent(source, note, velocity, TRUE))]
    ELSE m

\* MusicModel.releaseNote
MusicReleaseNote(m, source, note) ==
    IF OutOfRange(note) THEN m
    ELSE IF <<source, note>> \in m.vp
    THEN [m EXCEPT !.vp = @ \ {<<source, note>>},
                   !.events = Append(@, NoteEvent(source, note, Null, FALSE))]
    ELSE m

\* the body of a release-all loop: releaseNote for each of `sources`, in order
RECURSIVE ReleaseSources(_, _, _)
ReleaseSources(m, sources, note) ==
    IF sources = <<>> THEN m
    ELSE ReleaseSources(MusicReleaseNote(m, Head(sources), note), Tail(sources), note)

\* for (let note = from; note < to; note++), the notes in ascending order (the
\* range is taken in two halves to keep the evaluation shallow)
RECURSIVE ReleaseLoop(_, _, _, _)
ReleaseLoop(m, sources, from, to) ==
    IF to <= from THEN m
    ELSE IF to = from + 1 THEN ReleaseSources(m, sources, from)
    ELSE CHOOSE r \in
             {ReleaseLoop(half, sources, (from + to) \div 2, to) :
                 half \in {ReleaseLoop(m, sources, from, (from + to) \div 2)}} : TRUE

\* MusicModel.releaseAllNotes
ReleaseAllNotes(m) ==
    ReleaseLoop(m, <<SOURCE_KEYBOARD, SOURCE_MOUSE, SOURCE_DEMO, SOURCE_MIDI>>, LOWEST_NOTE, LOWEST_NOTE + NUM_NOTES)

\* MusicModel.releaseAllDemoNotes
ReleaseAllDemoNotes(m) == ReleaseLoop(m, <<SOURCE_DEMO>>, LOWEST_NOTE, LOWEST_NOTE + NUM_NOTES)

\* MusicModel.releaseAllKeyAndMouseNotes
ReleaseAllKeyAndMouseNotes(m) ==
    ReleaseLoop(m, <<SOURCE_KEYBOARD, SOURCE_MOUSE>>, LOWEST_NOTE, LOWEST_NOTE + NUM_NOTES)

\* the setter of MusicModel.globalMute; stopDemoTrack releases the demo notes
MusicGlobalMute(m, newValue) ==
    IF m.globalMuteValue # newValue
    THEN [(IF newValue THEN ReleaseAllDemoNotes(ReleaseAllNotes(m)) ELSE m)
             EXCEPT !.globalMuteValue = newValue]
    ELSE m

\* the setter of MusicModel.octaveOffset
MusicOctaveOffset(m, newValue) ==
    IF newValue # m.octaveOffsetValue
    THEN [ReleaseAllKeyAndMouseNotes(m) EXCEPT !.octaveOffsetValue = newValue]
    ELSE m

\* MusicModel.onKeyDown, for a key whose shortcut is `note`
MusicOnKeyDown(m, note, repeat) ==
    IF repeat THEN m
    ELSE MusicPressNote(m, SOURCE_KEYBOARD, note + m.octaveOffsetValue, KEYBOARD_VELOCITY)

\* MusicModel.onKeyUp, for a key whose shortcut is `note`
MusicOnKeyUp(m, note) == MusicReleaseNote(m, SOURCE_KEYBOARD, note + m.octaveOffsetValue)

\* a listener to notedown and noteup takes in the events of an operation, on
\* st = [heard, misordered]: a notedown of a pair that is down, or a noteup of one
\* that is not, is misordered
RECURSIVE Hear(_, _)
Hear(st, events) ==
    IF events = <<>> THEN st
    ELSE LET ev == Head(events)
             pair == <<ev.source, ev.note>>
         IN  Hear([heard |-> IF ev.type = "notedown" THEN st.heard \cup {pair}
                             ELSE st.heard \ {pair},
                   misordered |-> \/ st.misordered
                                  \/ (ev.type = "notedown") = (pair \in st.heard)],
                  Tail(events))

\* ---- instrumentModel.ts: deepMerge ------------------------------------------------

\* JavaScript values as trees: a primitive (its value written as a string), null,
\* undefined, an array of values, and an object whose fields are values
Prim(value) == [kind |-> "prim", value |-> value]

JsNull == [kind |-> "null"]

Undefined == [kind |-> "undefined"]

Arr(items) == [kind |-> "array", items |-> items]

Obj(fields) == [kind |-> "object", fields |-> fields]

\* src[key] and src[i]: undefined where src has no such property
GetKey(src, key) ==
    IF src.kind = "object" /\ key \in DOMAIN src.fields THEN src.fields[key] ELSE Undefined

GetIndex(src, i) ==
    IF src.kind = "array" /\ i \in DOMAIN src.items THEN src.items[i] ELSE Undefined

\* target !== src, for a target that is a primitive or null
StrictNotEqual(target, src) ==
    IF target.kind = "prim" /\ src.kind = "prim" THEN target.value # src.value
    ELSE target.kind # src.kind

\* the outcomes of deepMerge: `throw new Error`, [target, false], [src, target !== src]
Thrown == [threw |-> TRUE, result |-> Undefined, mutated |-> FALSE]

Kept(target) == [threw |-> FALSE, result |-> target, mutated |-> FALSE]

\* mutant of Replaced: [src, true]
ReplacedAlways(target, src) == [threw |-> FALSE, result |-> src, mutated |-> TRUE]

Replaced(target, src) ==
    [threw |-> FALSE, result |-> src, mutated |-> StrictNotEqual(target, src)]

\* deepMerge(target, src)
RECURSIVE DeepMerge(_, _)
DeepMerge(target, src) ==
    IF target.kind = "array"
    THEN IF src.kind # "array" THEN Thrown
         ELSE LET merged == [i \in DOMAIN target.items |->
                                IF GetIndex(src, i) # Undefined
                                THEN DeepMerge(target.items[i], GetIndex(src, i))
                                ELSE Kept(target.items[i])]
              IN  IF \E i \in DOMAIN merged : merged[i].threw THEN Thrown
                  ELSE [threw |-> FALSE,
                        result |-> Arr([i \in DOMAIN merged |-> merged[i].result]),
                        mutated |-> \E i \in DOMAIN merged : merged[i].mutated]
    ELSE IF target.kind = "object" \/ target.kind = "null"
    THEN IF src.kind # "object" /\ src.kind # "array" /\ src.kind # "null" THEN Thrown
         ELSE IF src.kind # "null" /\ target.kind # "null"
         THEN LET merged == [key \in DOMAIN target.fields |->
                                IF GetKey(src, key) # Undefined
                                THEN DeepMerge(target.fields[key], GetKey(src, key))
                                ELSE Kept(target.fields[key])]
              IN  IF \E key \in DOMAIN merged : merged[key].threw THEN Thrown
                  ELSE [threw |-> FALSE,
                        result |-> Obj([key \in DOMAIN merged |-> merged[key].result]),
                        mutated |-> \E key \in DOMAIN merged : merged[key].mutated]
         ELSE Replaced(target, src)
    ELSE Replaced(target, src)

\* mergeInstruments(instrument, partial)
MergeInstruments(inst, partial) == DeepMerge(inst, partial)

\* ---- audioWorklet.ts: the low-frequency oscillator ---------------------------------

\* Angles are kept in units of pi and times in ticks, so sampleRate is
\* 1 / TicksPerSample samples a tick.

\* x % 2 for a finite x >= 0
Mod2(x) == Frac(x[1] % (2 * x[2]), x[2])

\* Math.sin(angle - Math.PI * 0.5), exact where the angle is a multiple of pi / 2
SinMinusHalfPi(angle) ==
    LET quarter == Times(Mod2(angle), Whole(2)) IN
    IF quarter = Whole(0) THEN Whole(-1)
    ELSE IF quarter = Whole(2) THEN Whole(1)
    ELSE IF quarter = Whole(1) \/ quarter = Whole(3) THEN Whole(0)
    ELSE NaN

\* the switch of advanceLfoBy: the waveform at lfoAngle
LfoWaveform(lfoWave, lfoAngle) ==
    LET phase == Mod2(lfoAngle)
        tri == Minus(Whole(1), MathAbs(Minus(Whole(1), phase)))
    IN  IF lfoWave = "sine"
        THEN Times(Plus(SinMinusHalfPi(lfoAngle), Whole(1)), Frac(1, 2))
        ELSE IF lfoWave = "triangle" THEN tri
        ELSE IF lfoWave = "square"
        THEN MathMax(Whole(0), MathMin(Whole(1), Minus(Times(tri, Whole(11)), Whole(5))))
        ELSE IF Less(phase, Frac(1, 5)) THEN Times(phase, Whole(5))
        ELSE Minus(Whole(1), Over(Minus(phase, Frac(1, 5)), Frac(9, 5)))

\* VoiceProcessor.advanceLfoBy
AdvanceLfoBy(p, numSamples) ==
    CHOOSE r \in
        {IF lfoTimeSeconds >= p.instrument.lfoDelaySeconds
         THEN LET lfoAngle == Plus(p.lfoAngle, Times(p.lfoAngleInc, Whole(numSamples)))
                  wave == LfoWaveform(p.instrument.lfoWave, lfoAngle)
              IN  [p EXCEPT !.lfoTimeSeconds = lfoTimeSeconds,
                            !.lfoAngle = lfoAngle,
                            !.lfo = IF p.instrument.lfoAttackSeconds > 0
                                    THEN Times(wave,
                                            MathMin(Frac(lfoTimeSeconds
                                                            - p.instrument.lfoDelaySeconds,
                                                         p.instrument.lfoAttackSeconds),
                                                    Whole(1)))
                                    ELSE wave]
         ELSE [p EXCEPT !.lfoTimeSeconds = lfoTimeSeconds, !.lfo = Whole(0)] :
            lfoTimeSeconds \in {p.lfoTimeSeconds + numSamples * TicksPerSample}} : TRUE

\* VoiceProcessor.constructor and the field initialisers: the oscillator of a
\* processor constructed at currentTime = time
NewLfo(instrument, noteDownTime, time) ==
    LET started == OrElse(noteDownTime, time)
        lfoSamplesPerOsc == Over(Frac(1, TicksPerSample), instrument.lfoFrequencyHz)
    IN  AdvanceLfoBy([instrument |-> instrument,
                      noteDownTime |-> started,
                      time |-> time,
                      lfo |-> Whole(0),
                      lfoAngle |-> Whole(0),
                      lfoAngleInc |-> Over(Whole(2), lfoSamplesPerOsc),
                      lfoTimeSeconds |-> time - started], 0)

\* ---- parseMidi: the merge of the tracks ------------------------------------------

\* track.reverse()
Reverse(track) == [i \in 1..Len(track) |-> track[Len(track) + 1 - i]]

\* the for loop over the tracks: the index of bestTrack, from tracks[i..]
RECURSIVE BestTrack(_, _, _, _)
BestTrack(tracks, i, bestTrack, bestTrackTicks) ==
    IF i > Len(tracks) THEN bestTrack
    ELSE IF Len(tracks[i]) > 0
    THEN LET trackTicks == tracks[i][Len(tracks[i])].atTicks
             messageType == tracks[i][Len(tracks[i])].type
         IN  IF \/ bestTrackTicks = Null
                \/ trackTicks < bestTrackTicks
                \/ (trackTicks = bestTrackTicks /\ messageType = "noteup")
             THEN BestTrack(tracks, i + 1, i, trackTicks)
             ELSE BestTrack(tracks, i + 1, bestTrack, bestTrackTicks)
    ELSE BestTrack(tracks, i + 1, bestTrack, bestTrackTicks)

\* the while (true) loop, on st = [tracks, mergedMessages]
RECURSIVE MergeLoop(_)
MergeLoop(st) ==
    LET bestTrack == BestTrack(st.tracks, 1, Null, Null) IN
    IF bestTrack = Null THEN st
    ELSE MergeLoop([tracks |-> [st.tracks EXCEPT ![bestTrack] = SubSeq(@, 1, Len(@) - 1)],
                    mergedMessages |->
                        Append(st.mergedMessages,
                               st.tracks[bestTrack][Len(st.tracks[bestTrack])])])

\* parseMidi, from the parsed tracks to mergedMessages
MergeTracks(tracks) ==
    MergeLoop([tracks |-> [i \in 1..Len(tracks) |-> Reverse(tracks[i])],
               mergedMessages |-> <<>>])

\* ---- instrumentModel.ts: the list of instruments -----------------------------------

\* The list is followed on st = [instruments, activeInstrumentValue, threw,
\* events]; instruments[i] of the code is st.instruments[i + 1] here.

\* set activeInstrument
SetActiveInstrument(st, newValue) ==
    IF newValue >= Len(st.instruments)
    THEN [st EXCEPT !.threw = TRUE]
    ELSE IF newValue # st.activeInstrumentValue
    THEN [st EXCEPT !.activeInstrumentValue = newValue,
                    !.events = Append(@, "activeinstrumentchange")]
    ELSE st

\* InstrumentModel.deleteInstrument
DeleteInstrument(st, i) ==
    IF i >= 0 /\ i < Len(st.instruments)
    THEN LET popped == [st EXCEPT !.instruments =
                           [j \in 1..(Len(st.instruments) - 1) |->
                               IF j < i + 1 THEN st.instruments[j]
                               ELSE st.instruments[j + 1]]]
         IN  IF \/ popped.activeInstrumentValue > i
                \/ popped.activeInstrumentValue = Len(popped.instruments)
             THEN SetActiveInstrument(popped, popped.activeInstrumentValue - 1)
             ELSE popped
    ELSE st

\* InstrumentModel.copyInstrument
CopyInstrument(st, i) ==
    IF i >= 0 /\ i < Len(st.instruments)
    THEN LET pushed == [st EXCEPT !.instruments = Append(@, st.instruments[i + 1])]
         IN  SetActiveInstrument(pushed, Len(pushed.instruments) - 1)
    ELSE st

\* InstrumentModel.merge({ name: newName }), on an active instrument that exists
MergeName(st, newName) ==
    IF st.instruments[st.activeInstrumentValue + 1] # newName
    THEN [st EXCEPT !.instruments[st.activeInstrumentValue + 1] = newName,
                    !.events = Append(@, "mutateinstrument")]
    ELSE st

\* ---- musicModel.ts, instrumentModel.ts: the listeners ---------------------------

\* A function object is [closure |-> n, listener |-> l]: the n-th function
\* object created, which calls l when it is called. Two function objects are
\* the same callback only when they are the same object.

\* (ev: Event) => listener(ev), evaluated when numClosures function objects exist
ArrowFunction(n, listener) == [closure |-> n + 1, listener |-> listener]

\* this.eventTarget.addEventListener(ty, callback): the callback is appended
\* unless it is registered for the type already
EventTargetAdd(list, ty, callback) ==
    IF \E k \in 1..Len(list) : list[k] = [ty |-> ty, callback |-> callback]
    THEN list
    ELSE Append(list, [ty |-> ty, callback |-> callback])

\* this.eventTarget.removeEventListener(ty, callback): the entry of the type
\* with this very callback is taken out
RECURSIVE EventTargetRemove(_, _, _)
EventTargetRemove(list, ty, callback) ==
    IF list = <<>> THEN <<>>
    ELSE IF Head(list) = [ty |-> ty, callback |-> callback] THEN Tail(list)
    ELSE <<Head(list)>> \o EventTargetRemove(Tail(list), ty, callback)

\* this.eventTarget.dispatchEvent(new Event(ty)): the listeners called, in order
RECURSIVE Invoked(_, _)
Invoked(list, ty) ==
    IF list = <<>> THEN <<>>
    ELSE (IF Head(list).ty = ty THEN <<Head(list).callback.listener>> ELSE <<>>)
             \o Invoked(Tail(list), ty)

\* addEventListener(ty, listener) of either model
ModelAddEventListener(list, n, ty, listener) ==
    EventTargetAdd(list, ty, ArrowFunction(n, listener))

\* removeEventListener(ty, listener) of either model
ModelRemoveEventListener(list, n, ty, listener) ==
    EventTargetRemove(list, ty, ArrowFunction(n, listener))

\* ---- initial state ---------------------------------------------------------

MixerInit ==
    /\ currentTime = 0
    /\ ctxState = "suspended"
    /\ listening = FALSE
    /\ nextVoiceKey = 0
    /\ voices = <<>>
    /\ globalMuteValue = FALSE
    /\ toRecreate = FALSE
    /\ vp = {}
    /\ mmGlobalMuteValue = FALSE
    /\ changesSinceTick = 0
    /\ numEnded = 0
    /\ lastOp = NoOp

\* no VoiceProcessor has been constructed
NoProcessor ==
    /\ proc = Null
    /\ port = <<>>
    /\ posted = Null
    /\ procOp = Null

\* no operator stage is followed, and no note event has been dispatched
NoOperators ==
    /\ operators = Null
    /\ operatorsOp = Null

NoNoteEvents ==
    /\ octaveOffsetValue = 0
    /\ heard = {}
    /\ musicOp = Null

\* no oscillator is followed
NoLfo ==
    /\ lfoProc = Null
    /\ lfoOp = Null

\* no MIDI file is parsed
NoMidi ==
    /\ midiTracks = Null
    /\ mergedMessages = Null

\* no list of instruments is followed
NoList ==
    /\ instruments = Null
    /\ activeInstrumentValue = Null
    /\ listOp = Null

\* no listeners are followed
NoListeners ==
    /\ eventTarget = Null
    /\ numClosures = Null
    /\ listenerOp = Null

\* no InstrumentModel is followed
NoInstrument ==
    /\ activeInstrument = Null
    /\ instrumentOp = Null

Init ==
    /\ MixerInit
    /\ NoLfo
    /\ NoMidi
    /\ NoList
    /\ NoListeners
    /\ env = Null
    /\ envOp = Null
    /\ NoProcessor
    /\ NoInstrument
    /\ NoOperators
    /\ NoNoteEvents

\* ---- actions ------------------------------------------------------------------

\* audioWorklet.addModule() resolves: the Mixer subscribes to notedown / noteup
ModuleLoaded ==
    /\ ~listening
    /\ listening' = TRUE
    /\ lastOp' = NoOp
    /\ UNCHANGED <<currentTime, ctxState, nextVoiceKey, voices, globalMuteValue,
                   toRecreate, vp, mmGlobalMuteValue, changesSinceTick, numEnded>>

    /\ UNCHANGED <<rvars, pvars, ovars, nvars, ivars, xvars>>
\* onUserInteraction: ctx.resume() takes effect
Resume ==
    /\ ctxState = "suspended"
    /\ ctxState' = "running"
    /\ lastOp' = NoOp
    /\ UNCHANGED <<currentTime, listening, nextVoiceKey, voices, globalMuteValue,
                   toRecreate, vp, mmGlobalMuteValue, changesSinceTick, numEnded>>

    /\ UNCHANGED <<rvars, pvars, ovars, nvars, ivars, xvars>>
\* context time progresses only while the context is running
AdvanceTime ==
    /\ ctxState = "running"
    /\ currentTime < MaxTime
    /\ currentTime' = currentTime + 1
    /\ lastOp' = NoOp
    /\ UNCHANGED <<ctxState, listening, nextVoiceKey, voices, globalMuteValue,
                   toRecreate, vp, mmGlobalMuteValue, changesSinceTick, numEnded>>

    /\ UNCHANGED <<rvars, pvars, ovars, nvars, ivars, xvars>>
\* MusicModel.pressNote, with the Mixer's notedown listener
PressNote(source, note, velocity) ==
    /\ ~mmGlobalMuteValue
    /\ <<source, note>> \notin vp
    /\ vp' = vp \cup {<<source, note>>}
    /\ IF listening
       THEN OnNoteDown(source, note, velocity)
       ELSE /\ UNCHANGED <<nextVoiceKey, voices>>
            /\ lastOp' = NoOp
    /\ UNCHANGED <<currentTime, ctxState, listening, globalMuteValue, toRecreate,
                   mmGlobalMuteValue, changesSinceTick, numEnded>>

    /\ UNCHANGED <<rvars, pvars, ovars, nvars, ivars, xvars>>
\* MusicModel.releaseNote, with the Mixer's noteup listener
ReleaseNote(source, note) ==
    /\ <<source, note>> \in vp
    /\ vp' = vp \ {<<source, note>>}
    /\ voices' = IF listening THEN OnNoteUp(voices, {<<source, note>>}, currentTime)
                 ELSE voices
    /\ lastOp' = IF listening
                 THEN [NoOp EXCEPT !.op = "onNoteUp", !.source = source, !.note = note,
                                   !.before = voices]
                 ELSE NoOp
    /\ UNCHANGED <<currentTime, ctxState, listening, nextVoiceKey, globalMuteValue,
                   toRecreate, mmGlobalMuteValue, changesSinceTick, numEnded>>

    /\ UNCHANGED <<rvars, pvars, ovars, nvars, ivars, xvars>>
\* MusicModel: set globalMute (releaseAllNotes on the rising edge)
SetMusicGlobalMute(newValue) ==
    /\ mmGlobalMuteValue # newValue
    /\ mmGlobalMuteValue' = newValue
    /\ vp' = IF newValue THEN {} ELSE vp
    /\ voices' = IF newValue /\ listening THEN OnNoteUp(voices, vp, currentTime) ELSE voices
    /\ lastOp' = NoOp
    /\ UNCHANGED <<currentTime, ctxState, listening, nextVoiceKey, globalMuteValue,
                   toRecreate, changesSinceTick, numEnded>>

    /\ UNCHANGED <<rvars, pvars, ovars, nvars, ivars, xvars>>
\* mutant of SetGlobalMute: the rising edge does not call forceStopAllVoices
SetGlobalMuteKeepVoices(newValue) ==
    /\ globalMuteValue # newValue
    /\ globalMuteValue' = newValue
    /\ lastOp' = NoOp
    /\ UNCHANGED <<currentTime, ctxState, listening, nextVoiceKey, voices, toRecreate, vp,
                   mmGlobalMuteValue, changesSinceTick, numEnded>>

    /\ UNCHANGED <<rvars, pvars, ovars, nvars, ivars, xvars>>
\* Mixer: set globalMute
SetGlobalMute(newValue) ==
    /\ globalMuteValue # newValue
    /\ globalMuteValue' = newValue
    /\ IF newValue
       THEN /\ voices' = <<>>
            /\ lastOp' = [NoOp EXCEPT !.op = "forceStopAllVoices",
                                      !.dropped = ForceStopAllVoices(voices, currentTime)]
       ELSE /\ UNCHANGED voices
            /\ lastOp' = NoOp
    /\ UNCHANGED <<currentTime, ctxState, listening, nextVoiceKey, toRecreate, vp,
                   mmGlobalMuteValue, changesSinceTick, numEnded>>

    /\ UNCHANGED <<rvars, pvars, ovars, nvars, ivars, xvars>>
\* mutant of ChangeEvent: the listener does not set toRecreate
ChangeEventUnheard(type) ==
    /\ changesSinceTick < MaxChanges
    /\ changesSinceTick' = changesSinceTick + 1
    /\ lastOp' = NoOp
    /\ UNCHANGED <<currentTime, ctxState, listening, nextVoiceKey, voices, toRecreate,
                   globalMuteValue, vp, mmGlobalMuteValue, numEnded>>

    /\ UNCHANGED <<rvars, pvars, ovars, nvars, ivars, xvars>>
\* the four change listeners of the Mixer constructor
ChangeEvent(type) ==
    /\ changesSinceTick < MaxChanges
    /\ toRecreate' = TRUE
    /\ changesSinceTick' = changesSinceTick + 1
    /\ lastOp' = NoOp
    /\ UNCHANGED <<currentTime, ctxState, listening, nextVoiceKey, voices,
                   globalMuteValue, vp, mmGlobalMuteValue, numEnded>>

    /\ UNCHANGED <<rvars, pvars, ovars, nvars, ivars, xvars>>
\* the 60 ms interval callback of the Mixer constructor
RecreateTick ==
    /\ changesSinceTick' = 0
    /\ IF toRecreate
       THEN LET st == RecreateAllVoices(voices, nextVoiceKey, currentTime) IN
            /\ toRecreate' = FALSE
            /\ voices' = st.newVoices
            /\ nextVoiceKey' = st.nextVoiceKey
            /\ lastOp' = [NoOp EXCEPT !.op = "tick", !.calls = 1, !.repl = st.repl,
                                      !.dropped = st.old,
                                      !.changes = changesSinceTick]
       ELSE /\ UNCHANGED <<toRecreate, voices, nextVoiceKey>>
            /\ lastOp' = [NoOp EXCEPT !.op = "tick", !.calls = 0,
                                      !.changes = changesSinceTick]
    /\ UNCHANGED <<currentTime, ctxState, listening, globalMuteValue, vp, mmGlobalMuteValue,
                   numEnded>>

    /\ UNCHANGED <<rvars, pvars, ovars, nvars, ivars, xvars>>
\* VoiceProcessor.process for one block of the voice with key k
Process(k, ending) ==
    /\ ctxState = "running"
    /\ k \in DOMAIN voices
    /\ (ending /\ voices[k].node.endedPosts = 0) => numEnded < MaxEnded
    /\ voices' = [voices EXCEPT ![k] = ProcessEnd(@, ending)]
    /\ numEnded' = IF ending /\ voices[k].node.endedPosts = 0 THEN numEnded + 1
                   ELSE numEnded
    /\ lastOp' = IF voices[k].node.endedPosts > 0
                 THEN [NoOp EXCEPT !.op = "processAfterEnded", !.key = k,
                                   !.ending = ending]
                 ELSE NoOp
    /\ UNCHANGED <<currentTime, ctxState, listening, nextVoiceKey, globalMuteValue,
                   toRecreate, vp, mmGlobalMuteValue, changesSinceTick>>

    /\ UNCHANGED <<rvars, pvars, ovars, nvars, ivars, xvars>>
\* the Voice's port message listener receives an "ended" message
DeliverEnded(k) ==
    /\ k \in DOMAIN voices
    /\ voices[k].inbox > 0
    /\ voices' = IF voices[k].state # "ended" /\ voices[k].endCallback
                 THEN Remove(voices, k)
                 ELSE [voices EXCEPT ![k].inbox = @ - 1, ![k].state = "ended"]
    /\ lastOp' = [NoOp EXCEPT !.op = "ended", !.key = k]
    /\ UNCHANGED <<currentTime, ctxState, listening, nextVoiceKey, globalMuteValue,
                   toRecreate, vp, mmGlobalMuteValue, changesSinceTick, numEnded>>

    /\ UNCHANGED <<rvars, pvars, ovars, nvars, ivars, xvars>>
Next ==
    \/ ModuleLoaded
    \/ Resume
    \/ AdvanceTime
    \/ \E p \in Pairs, v \in Velocities :
            nextVoiceKey < MaxVoices /\ PressNote(p[1], p[2], v)
    \/ \E p \in Pairs : ReleaseNote(p[1], p[2])
    \/ \E b \in BOOLEAN : SetMusicGlobalMute(b)
    \/ \E b \in BOOLEAN : SetGlobalMute(b)
    \/ \E ty \in ChangeEventTypes : ChangeEvent(ty)
    \/ nextVoiceKey <= MaxVoices /\ RecreateTick
    \/ \E k \in DOMAIN voices, e \in BOOLEAN : Process(k, e)
    \/ \E k \in DOMAIN voices : DeliverEnded(k)

Spec == Init /\ [][Next]_vars

\* ---- the polyphony specification: one key of the piano, many voices --------

\* the renderer followed to its end is that of the voice with the lowest key
OldestKeys == {k \in DOMAIN voices : \A j \in DOMAIN voices : k <= j}

PolyNext ==
    \/ ModuleLoaded
    \/ Resume
    \/ AdvanceTime
    \/ nextVoiceKey < MaxPolyVoices /\ PressNote(SOURCE_KEYBOARD, 60, 75)
    \/ ReleaseNote(SOURCE_KEYBOARD, 60)
    \/ \E b \in BOOLEAN : SetGlobalMute(b)
    \/ ChangeEvent("pitchwheel")
    \/ nextVoiceKey + Cardinality(DOMAIN voices) <= MaxPolyVoices /\ RecreateTick
    \/ \E k \in OldestKeys, e \in BOOLEAN : Process(k, e)
    \/ \E k \in DOMAIN voices : DeliverEnded(k)

PolySpec == Init /\ [][PolyNext]_vars

\* ---- the envelope specification: one Envelope, constructed, advanced, released --

EnvInit ==
    /\ MixerInit
    /\ NoLfo
    /\ NoMidi
    /\ NoList
    /\ NoListeners
    /\ NoProcessor
    /\ NoInstrument
    /\ NoOperators
    /\ NoNoteEvents
    /\ \E src \in EnvelopeSources, enabled \in BOOLEAN, time \in EnvelopeTimes,
          noteUpTime \in {Null} \cup EnvelopeTimes :
          /\ env = Envelope(src, enabled, 0, noteUpTime, time)
          /\ envOp = [op |-> "new", src |-> src, enabled |-> enabled,
                      noteUpTime |-> noteUpTime, time |-> time]

\* envelope.advanceBy(numSamples)
EnvAdvanceBy(numSamples) ==
    /\ env' = AdvanceBy(env, numSamples)
    /\ envOp' = [op |-> "advanceBy", numSamples |-> numSamples, before |-> env]
    /\ UNCHANGED <<mvars, pvars, ovars, nvars, ivars, xvars>>

\* envelope.release(noteUpTime)
EnvRelease(noteUpTime) ==
    /\ env' = EnvelopeRelease(env, noteUpTime)
    /\ envOp' = [op |-> "release", before |-> env]
    /\ UNCHANGED <<mvars, pvars, ovars, nvars, ivars, xvars>>

EnvNext ==
    \/ \E numSamples \in 0..MaxAdvance : EnvAdvanceBy(numSamples)
    \/ EnvRelease(0)

EnvSpec == EnvInit /\ [][EnvNext]_vars

\* ---- the renderer specification: one VoiceProcessor, its port and its blocks --------

\* the arguments the control side constructs a processor with, at currentTime =
\* time: those of a new note (all times null) and those of a replacement made by
\* recreateAllVoices at `created` (the times of the old voice and a fade-in
\* CROSSFADE_DELAY_MS later)
ProcessorArgs(time) ==
    {[instrument |-> instrument, noteDownTime |-> Null, noteUpTime |-> Null,
      fadeInTime |-> Null] : instrument \in Instruments}
    \cup
    {args \in [instrument : Instruments,
               noteDownTime : ConstructTimes,
               noteUpTime : {Null} \cup ConstructTimes,
               fadeInTime : {created + CrossfadeTicks : created \in ConstructTimes}] :
        /\ args.noteDownTime <= time
        /\ args.noteUpTime # Null => args.noteDownTime <= args.noteUpTime
        /\ args.noteUpTime <= time
        /\ args.noteDownTime + CrossfadeTicks <= args.fadeInTime
        /\ args.fadeInTime <= time + CrossfadeTicks}

RenderInit ==
    /\ MixerInit
    /\ NoLfo
    /\ NoMidi
    /\ NoList
    /\ NoListeners
    /\ NoInstrument
    /\ NoOperators
    /\ NoNoteEvents
    /\ env = Null
    /\ envOp = Null
    /\ \E time \in ConstructTimes : \E args \in ProcessorArgs(time) :
          /\ proc = NewVoiceProcessor(args, time)
          /\ procOp = [op |-> "new", args |-> args]
    /\ port = <<>>
    /\ posted = [release |-> 0, forceStop |-> 0, ping |-> 0]

\* Voice.release(): the control side posts a release stamped with ctx.currentTime;
\* punctual is the envelopes of a processor that is handed the release at once
PostRelease ==
    /\ proc.portOpen
    /\ Len(port) < MaxInFlight
    /\ proc.noteUpTime = Null
    /\ posted.release = 0
    /\ posted.forceStop = 0
    /\ port' = Append(port, [messageType |-> "release", noteUpTime |-> proc.time])
    /\ posted' = [posted EXCEPT !.release = 1]
    /\ proc' = [proc EXCEPT !.punctual =
                   [opI \in OPERATOR_NAMES |-> EnvelopeRelease(proc.envelopes[opI], proc.time)]]
    /\ procOp' = [op |-> "postRelease"]
    /\ UNCHANGED <<ovars, nvars, ivars, xvars, mvars, rvars>>

\* Voice.forceStop(forceStopTime): at ctx.currentTime, or CROSSFADE_DELAY_MS later
PostForceStop(delay) ==
    /\ proc.portOpen
    /\ Len(port) < MaxInFlight
    /\ posted.forceStop = 0
    /\ proc.time + delay <= ClockHorizon
    /\ port' = Append(port, [messageType |-> "forceStop",
                             forceStopTime |-> OrElse(proc.time + delay, proc.time)])
    /\ posted' = [posted EXCEPT !.forceStop = 1]
    /\ procOp' = [op |-> "postForceStop"]
    /\ UNCHANGED <<ovars, nvars, ivars, xvars, mvars, rvars, proc>>

\* Voice.ping()
PostPing ==
    /\ proc.portOpen
    /\ Len(port) < MaxInFlight
    /\ posted.ping < MaxPings
    /\ port' = Append(port, [messageType |-> "ping"])
    /\ posted' = [posted EXCEPT !.ping = @ + 1]
    /\ procOp' = [op |-> "postPing"]
    /\ UNCHANGED <<ovars, nvars, ivars, xvars, mvars, rvars, proc>>

\* the processor's port delivers its oldest message, between two blocks; pingLog
\* is the samples produced since the ping before, for each ping delivered, and
\* rendered the samples of the blocks rendered since the last ping delivered
Deliver ==
    /\ proc.portOpen
    /\ port # <<>>
    /\ proc' = [OnMessage(proc, Head(port)) EXCEPT
                   !.punctual = IF Head(port).messageType = "release" THEN <<>> ELSE @,
                   !.pingLog = IF Head(port).messageType = "ping"
                               THEN Append(@, [samples |-> proc.samplesSinceLastPing])
                               ELSE @,
                   !.rendered = IF Head(port).messageType = "ping" THEN 0 ELSE @]
    /\ port' = Tail(port)
    /\ procOp' = [op |-> "deliver", data |-> Head(port), before |-> proc]
    /\ UNCHANGED <<ovars, nvars, ivars, xvars, mvars, rvars, posted>>

\* the audio thread renders one block; currentTime moves on by a block, and is
\* held at ClockHorizon, which no time in the system is later than
ProcessBlock(samples) ==
    /\ proc.portOpen
    /\ \E call \in {ProcessCall(proc, samples)} :
          /\ proc' = [call.after EXCEPT
                         !.time = IF @ + BlockTicks > ClockHorizon THEN @ ELSE @ + BlockTicks,
                         !.rendered = IF proc.pingLog # <<>> THEN @ + BlockSize ELSE @]
          /\ procOp' = call.op
    /\ UNCHANGED <<ovars, nvars, ivars, xvars, mvars, rvars, port, posted>>

RenderNext ==
    \/ PostRelease
    \/ \E delay \in {0, CrossfadeTicks} : PostForceStop(delay)
    \/ PostPing
    \/ Deliver
    \/ \E sample \in OperatorSamples : ProcessBlock([i \in 1..BlockSize |-> sample])

RenderSpec == RenderInit /\ [][RenderNext]_vars

\* the steps of the specification below: those of RenderNext, with one ping at
\* most and the operators at a peak in every block
RenderFairNext ==
    \/ PostRelease
    \/ \E delay \in {0, CrossfadeTicks} : PostForceStop(delay)
    \/ (posted.ping = 0 /\ PostPing)
    \/ Deliver
    \/ ProcessBlock([i \in 1..BlockSize |-> 1])

\* process() keeps being called for as long as it returns true
RenderFairSpec ==
    /\ RenderInit
    /\ [][RenderFairNext]_vars
    /\ WF_vars(ProcessBlock([i \in 1..BlockSize |-> 1]))

\* ---- the operator specification: the variations of one VoiceProcessor ------------

\* the notes, velocities and mod wheel value a voice is constructed with
VoiceNotes == {21, 30, 50, 100, 113}
VoiceVelocities == {50, 60}

\* the variations of the instruments played: the note over a descending and over
\* an ascending range onto operator a, the velocity over an empty range onto the
\* LFO, and the LFO onto operator b
VariationChoices ==
    {Variation("note", Whole(100), Whole(30), "a", Whole(0), Whole(1)),
     Variation("note", Whole(30), Whole(100), "a", Whole(1), Whole(2)),
     Variation("velocity", Whole(50), Whole(50), "lfo", Frac(1, 2), Whole(1)),
     Variation("lfo", Whole(0), Whole(1), "b", Whole(0), Whole(1))}

\* instrument.variations
VariationLists ==
    {variations \in [1..5 -> VariationChoices \cup {NullVariation}] :
        \A i \in 4..5 :
            \/ IsNullVariation(variations[i])
            \/ variations[i] = Variation("lfo", Whole(0), Whole(1), "b", Whole(0), Whole(1))}

\* the LFO values of a block and the signals the operators generate
LfoValues == {Whole(0), Frac(1, 2), Whole(1)}
OperatorSignals ==
    {[opI \in OPERATOR_NAMES |-> IF opI = "a" THEN Whole(1)
                                 ELSE IF opI = "b" THEN Frac(-1, 2) ELSE Whole(0)],
     [opI \in OPERATOR_NAMES |-> IF opI = "a" THEN Frac(1, 2)
                                 ELSE IF opI = "b" THEN Whole(1) ELSE Whole(0)]}

OperatorsInit ==
    /\ MixerInit
    /\ NoLfo
    /\ NoMidi
    /\ NoList
    /\ NoListeners
    /\ NoProcessor
    /\ NoInstrument
    /\ NoNoteEvents
    /\ env = Null
    /\ envOp = Null
    /\ \E note \in VoiceNotes, velocity \in VoiceVelocities, variations \in VariationLists :
          operators = [note |-> Whole(note), velocity |-> Whole(velocity),
                       modWheel |-> Whole(0), variations |-> variations,
                       outputLevel |-> [opI \in OPERATOR_NAMES |->
                                           IF opI = "a" THEN Whole(1)
                                           ELSE IF opI = "b" THEN Frac(1, 2) ELSE Whole(0)],
                       lastOpOutputsPost |-> [opI \in OPERATOR_NAMES |-> Whole(0)]]
    /\ operatorsOp = [op |-> "new"]

\* one sample of the loop of process(): advanceOperators(lfo, envelopeGains)
AdvanceOperatorsStep(lfo, opScratchPost) ==
    /\ \E call \in {AdvanceOperators(operators, lfo, opScratchPost)} :
          /\ operators' = call.after
          /\ operatorsOp' = call.op
    /\ UNCHANGED <<mvars, rvars, pvars, nvars, ivars, xvars>>

OperatorsNext ==
    \E lfo \in LfoValues, opScratchPost \in OperatorSignals :
        AdvanceOperatorsStep(lfo, opScratchPost)

OperatorsSpec == OperatorsInit /\ [][OperatorsNext]_vars

\* ---- the note specification: the MusicModel and the note events it dispatches ----

\* the notes asked for: one below the piano, two on it, one above it; the
\* shortcuts of the keys pressed; the octave offsets set
MusicNotes == {20, 60, 72, 114}
ShortcutNotes == {60}
OctaveOffsets == {0, 12}
MusicSources == {SOURCE_KEYBOARD, SOURCE_MOUSE, SOURCE_DEMO, SOURCE_MIDI}

MusicInit ==
    /\ MixerInit
    /\ NoLfo
    /\ NoMidi
    /\ NoList
    /\ NoListeners
    /\ NoProcessor
    /\ NoInstrument
    /\ NoOperators
    /\ env = Null
    /\ envOp = Null
    /\ octaveOffsetValue = 0
    /\ heard = {}
    /\ musicOp = [op |-> "new", events |-> <<>>, misordered |-> FALSE]

\* the MusicModel before an operation
Music ==
    [vp |-> vp, globalMuteValue |-> mmGlobalMuteValue,
     octaveOffsetValue |-> octaveOffsetValue, events |-> <<>>]

\* the operation `op` leaves the MusicModel as m, its events dispatched
MusicStep(op, m) ==
    /\ vp' = m.vp
    /\ mmGlobalMuteValue' = m.globalMuteValue
    /\ octaveOffsetValue' = m.octaveOffsetValue
    /\ \E st \in {Hear([heard |-> heard, misordered |-> FALSE], m.events)} :
          /\ heard' = st.heard
          /\ musicOp' = [op |-> op, events |-> m.events, misordered |-> st.misordered]
    /\ UNCHANGED <<currentTime, ctxState, listening, nextVoiceKey, voices, globalMuteValue,
                   toRecreate, changesSinceTick, numEnded, lastOp>>
    /\ UNCHANGED <<rvars, pvars, ovars, ivars, xvars>>

\* pressNote, also through pressMouseNote, the demo track and onMidiMessage
DoPressNote(source, note) ==
    MusicStep("pressNote", MusicPressNote(Music, source, note, KEYBOARD_VELOCITY))

\* releaseNote, also through releaseMouseNote, the demo track and onMidiMessage
DoReleaseNote(source, note) ==
    MusicStep("releaseNote", MusicReleaseNote(Music, source, note))

DoReleaseAllNotes == MusicStep("releaseAllNotes", ReleaseAllNotes(Music))

DoGlobalMute(newValue) == MusicStep("globalMute", MusicGlobalMute(Music, newValue))

DoOctaveOffset(newValue) == MusicStep("octaveOffset", MusicOctaveOffset(Music, newValue))

DoKeyDown(note, repeat) == MusicStep("onKeyDown", MusicOnKeyDown(Music, note, repeat))

DoKeyUp(note) == MusicStep("onKeyUp", MusicOnKeyUp(Music, note))

\* onWindowBlur
DoWindowBlur == MusicStep("onWindowBlur", ReleaseAllKeyAndMouseNotes(Music))

MusicNext ==
    \/ \E source \in MusicSources, note \in MusicNotes : DoPressNote(source, note)
    \/ \E source \in MusicSources, note \in MusicNotes : DoReleaseNote(source, note)
    \/ DoReleaseAllNotes
    \/ \E newValue \in BOOLEAN : DoGlobalMute(newValue)
    \/ \E newValue \in OctaveOffsets : DoOctaveOffset(newValue)
    \/ \E note \in ShortcutNotes, repeat \in BOOLEAN : DoKeyDown(note, repeat)
    \/ \E note \in ShortcutNotes : DoKeyUp(note)
    \/ DoWindowBlur

MusicSpec == MusicInit /\ [][MusicNext]_vars

\* ---- the instrument specification: InstrumentModel.merge on the active instrument ----

\* the Variation that the rack adds
RackVariation ==
    Obj([input |-> Prim("velocity"), inputFrom |-> Prim("0"), inputTo |-> Prim("127"),
         output |-> Prim("a"), outputFrom |-> Prim("1"), outputTo |-> Prim("1")])

\* the active instrument at the start: an Instrument cut down to its name, one
\* operator (enabled, and an envelope of two nodes), two variation slots and lfoWave
FirstInstrument ==
    Obj([name |-> Prim("BASIC SINE"),
         a |-> Obj([enabled |-> Prim("true"),
                    envelope |-> Arr(<<Obj([seconds |-> Prim("0"), level |-> Prim("0")]),
                                       Obj([seconds |-> Prim("1"), level |-> Prim("1")])>>)]),
         variations |-> Arr(<<RackVariation, JsNull>>),
         lfoWave |-> Prim("sine")])

\* partial instruments of the shape of the instrument
MatchingPartials ==
    {Obj(<<>>),
     Obj([name |-> Prim("SINE 2")]),
     Obj([a |-> Obj([enabled |-> Prim("false")])]),
     Obj([a |-> Obj([enabled |-> Prim("true")])]),
     Obj([a |-> Obj([envelope |-> Arr(<<Undefined, Obj([level |-> Prim("0.5")])>>)])]),
     Obj([lfoWave |-> Prim("sine")]),
     Obj([lfoWave |-> Prim("square")]),
     Obj([variations |-> Arr(<<RackVariation, RackVariation>>)]),
     Obj([variations |-> Arr(<<RackVariation, JsNull>>)]),
     Obj([variations |-> Arr(<<JsNull, JsNull>>)]),
     Obj([variations |-> Arr(<<Obj([inputFrom |-> Prim("64")])>>)])}

\* partial instruments of another shape: an array for an object and for a
\* primitive, an object for an array and for a primitive, a primitive for an
\* object, a key the instrument has not, an element past the end of an array,
\* and a partial that is no object
OtherPartials ==
    {Obj([a |-> Arr(<<Prim("1")>>)]),
     Obj([name |-> Arr(<<>>)]),
     Obj([variations |-> Obj(<<>>)]),
     Obj([name |-> Obj([first |-> Prim("SINE")])]),
     Obj([a |-> Prim("1")]),
     Obj([volume |-> Prim("1")]),
     Obj([variations |-> Arr(<<Undefined, Undefined, RackVariation>>)]),
     Prim("1")}

Partials == MatchingPartials \cup OtherPartials

InstrumentInit ==
    /\ MixerInit
    /\ NoLfo
    /\ NoMidi
    /\ NoList
    /\ NoListeners
    /\ NoProcessor
    /\ NoOperators
    /\ NoNoteEvents
    /\ env = Null
    /\ envOp = Null
    /\ activeInstrument = FirstInstrument
    /\ instrumentOp = [op |-> "new"]

\* InstrumentModel.merge(partial)
Merge(partial) ==
    /\ \E merged \in {MergeInstruments(activeInstrument, partial)} :
          IF merged.threw
          THEN /\ UNCHANGED activeInstrument
               /\ instrumentOp' = [op |-> "merge", partial |-> partial,
                                   before |-> activeInstrument, threw |-> TRUE,
                                   returned |-> FALSE, events |-> 0]
          ELSE /\ activeInstrument' = merged.result
               /\ instrumentOp' = [op |-> "merge", partial |-> partial,
                                   before |-> activeInstrument, threw |-> FALSE,
                                   returned |-> merged.mutated,
                                   events |-> IF merged.mutated THEN 1 ELSE 0]
    /\ UNCHANGED <<mvars, rvars, pvars, ovars, nvars, xvars>>

InstrumentNext == \E partial \in Partials : Merge(partial)

InstrumentSpec == InstrumentInit /\ [][InstrumentNext]_vars

\* ---- the oscillator specification: the LFO of one VoiceProcessor, and of its replacements --

\* the oscillators played: a quarter or an eighth of a turn a sample (the sine
\* wave with the quarter turn only, where it is exact), starting at once or
\* after a block or two, at full depth at once or after two blocks
LfoInstruments ==
    {i \in [lfoWave : {"sine", "triangle", "square", "sawtooth"},
            lfoFrequencyHz : {Frac(1, 4 * TicksPerSample), Frac(1, 8 * TicksPerSample)},
            lfoDelaySeconds : {0, BlockTicks, 2 * BlockTicks},
            lfoAttackSeconds : {0, 2 * BlockTicks}] :
        i.lfoWave = "sine" => i.lfoFrequencyHz = Frac(1, 4 * TicksPerSample)}

\* the context times at which a note is pressed
LfoNoteDownTimes == {0, BlockTicks}

\* the context time the oscillator is followed to
LfoHorizon == MaxLfoBlocks * BlockTicks

LfoInit ==
    /\ MixerInit
    /\ env = Null
    /\ envOp = Null
    /\ NoProcessor
    /\ NoInstrument
    /\ NoOperators
    /\ NoNoteEvents
    /\ NoMidi
    /\ NoList
    /\ NoListeners
    /\ \E instrument \in LfoInstruments, time \in LfoNoteDownTimes :
          /\ lfoProc = NewLfo(instrument, Null, time)
          /\ lfoOp = [op |-> "new"]

\* process(): advanceLfoBy(mono.length), and currentTime moves on by a block
LfoProcess ==
    /\ lfoProc.time + BlockTicks <= LfoHorizon
    /\ lfoProc' = [AdvanceLfoBy(lfoProc, BlockSize) EXCEPT !.time = @ + BlockTicks]
    /\ lfoOp' = [op |-> "process"]
    /\ UNCHANGED <<mvars, rvars, pvars, ovars, nvars, ivars, dvars, svars, evars>>

\* recreateAllVoices: a replacement is constructed at currentTime with the
\* noteDownTime of the processor it replaces, which is left running here
LfoRecreate ==
    /\ lfoOp' = [op |-> "recreate",
                 replacement |-> NewLfo(lfoProc.instrument, lfoProc.noteDownTime,
                                        lfoProc.time)]
    /\ UNCHANGED lfoProc
    /\ UNCHANGED <<mvars, rvars, pvars, ovars, nvars, ivars, dvars, svars, evars>>

LfoNext ==
    \/ LfoProcess
    \/ LfoRecreate

LfoSpec == LfoInit /\ [][LfoNext]_vars

\* ---- the MIDI specification: the tracks of a file and their merge ------------------

\* the messages of a track: note 60 pressed or released, or a tempo change
TrackMessages ==
    [type : {"notedown"}, atTicks : 0..MaxTicks, note : {60}, velocity : {64}]
    \cup [type : {"noteup"}, atTicks : 0..MaxTicks, note : {60}]
    \cup [type : {"tempo"}, atTicks : 0..MaxTicks, newMicrosecsPerQuaver : {500000}]

\* a track as the parser leaves it: elapsedTicks never decreases
Tracks ==
    {track \in UNION {[1..n -> TrackMessages] : n \in 0..MaxTrackMessages} :
        \A i \in 1..(Len(track) - 1) : track[i].atTicks <= track[i + 1].atTicks}

MidiInit ==
    /\ MixerInit
    /\ env = Null
    /\ envOp = Null
    /\ NoProcessor
    /\ NoInstrument
    /\ NoOperators
    /\ NoNoteEvents
    /\ NoLfo
    /\ NoList
    /\ NoListeners
    /\ midiTracks \in UNION {[1..n -> Tracks] : n \in 1..MaxTracks}
    /\ mergedMessages = <<>>

\* parseMidi merges the tracks
ParseMidiMerge ==
    /\ \E st \in {MergeTracks(midiTracks)} :
          /\ midiTracks' = st.tracks
          /\ mergedMessages' = st.mergedMessages
    /\ UNCHANGED <<mvars, rvars, pvars, ovars, nvars, ivars, lvars, svars, evars>>

MidiNext == ParseMidiMerge

MidiSpec == MidiInit /\ [][MidiNext]_vars

\* ---- the list specification: the instruments of the InstrumentModel and the active one --

\* the instruments a new InstrumentModel holds, by name
InitialInstruments ==
    <<"Rhodes Piano", "Steel Guitar", "Brass Lead", "Pipe Organ", "Basic Sine">>

\* the arguments of deleteInstrument and copyInstrument and the values assigned
\* to activeInstrument: every index of the longest list, and one on either side
ListIndexes == (0 - 1)..(Len(InitialInstruments) + MaxCopies)

ListInit ==
    /\ MixerInit
    /\ env = Null
    /\ envOp = Null
    /\ NoProcessor
    /\ NoInstrument
    /\ NoOperators
    /\ NoNoteEvents
    /\ NoLfo
    /\ NoMidi
    /\ NoListeners
    /\ instruments = InitialInstruments
    /\ activeInstrumentValue = 0
    /\ listOp = [op |-> "new", threw |-> FALSE, events |-> <<>>, numCopies |-> 0]

\* one call on the InstrumentModel that took the list to `st`; numCopies counts
\* the calls of copyInstrument
ListStep(op, st) ==
    /\ instruments' = st.instruments
    /\ activeInstrumentValue' = st.activeInstrumentValue
    /\ listOp' = [op |-> op, threw |-> st.threw, events |-> st.events,
                numCopies |-> listOp.numCopies + (IF op = "copyInstrument" THEN 1 ELSE 0)]
    /\ UNCHANGED <<mvars, rvars, pvars, ovars, nvars, ivars, lvars, dvars, evars>>

\* the list before a call
List ==
    [instruments |-> instruments, activeInstrumentValue |-> activeInstrumentValue,
     threw |-> FALSE, events |-> <<>>]

DoDeleteInstrument(i) == ListStep("deleteInstrument", DeleteInstrument(List, i))

DoCopyInstrument(i) ==
    /\ listOp.numCopies < MaxCopies
    /\ ListStep("copyInstrument", CopyInstrument(List, i))

DoSetActiveInstrument(newValue) ==
    ListStep("activeInstrument", SetActiveInstrument(List, newValue))

DoMergeName(newName) ==
    /\ activeInstrumentValue >= 0
    /\ activeInstrumentValue < Len(instruments)
    /\ ListStep("merge", MergeName(List, newName))

ListNext ==
    \/ \E i \in ListIndexes : DoDeleteInstrument(i)
    \/ \E i \in ListIndexes : DoCopyInstrument(i)
    \/ \E newValue \in ListIndexes : DoSetActiveInstrument(newValue)
    \/ DoMergeName("Untitled")

ListSpec == ListInit /\ [][ListNext]_vars

\* ---- the listener specification: the listeners of a MusicModel and an InstrumentModel --

Models == {"MusicModel", "InstrumentModel"}

\* two of the event types of each model
EventTypes(model) ==
    IF model = "MusicModel" THEN {"notedown", "noteup"}
    ELSE {"mutateinstrument", "activeinstrumentchange"}

\* the functions the callers pass as listeners
Listeners == {"f", "g"}

ListenerInit ==
    /\ MixerInit
    /\ env = Null
    /\ envOp = Null
    /\ NoProcessor
    /\ NoInstrument
    /\ NoOperators
    /\ NoNoteEvents
    /\ NoLfo
    /\ NoMidi
    /\ NoList
    /\ eventTarget = [model \in Models |-> <<>>]
    /\ numClosures = 0
    /\ listenerOp = [op |-> "new", model |-> "MusicModel", ty |-> "notedown",
                     listener |-> "f", invoked |-> <<>>, removed |-> {}]

\* the listener is registered for the type with the model
Registered(model, ty, listener) ==
    \E k \in 1..Len(eventTarget[model]) :
        /\ eventTarget[model][k].ty = ty
        /\ eventTarget[model][k].callback.listener = listener

\* `removed` holds the listeners that removeEventListener was called with while
\* they were registered, and that have not been added again since
AddEventListener(model, ty, listener) ==
    /\ numClosures < MaxClosures
    /\ eventTarget' = [eventTarget EXCEPT ![model] =
                          ModelAddEventListener(@, numClosures, ty, listener)]
    /\ numClosures' = numClosures + 1
    /\ listenerOp' = [op |-> "addEventListener", model |-> model, ty |-> ty,
                      listener |-> listener, invoked |-> <<>>,
                      removed |-> listenerOp.removed \ {<<model, ty, listener>>}]
    /\ UNCHANGED <<mvars, rvars, pvars, ovars, nvars, ivars, lvars, dvars, svars>>

RemoveEventListener(model, ty, listener) ==
    /\ numClosures < MaxClosures
    /\ eventTarget' = [eventTarget EXCEPT ![model] =
                          ModelRemoveEventListener(@, numClosures, ty, listener)]
    /\ numClosures' = numClosures + 1
    /\ listenerOp' = [op |-> "removeEventListener", model |-> model, ty |-> ty,
                      listener |-> listener, invoked |-> <<>>,
                      removed |-> IF Registered(model, ty, listener)
                                  THEN listenerOp.removed \cup {<<model, ty, listener>>}
                                  ELSE listenerOp.removed]
    /\ UNCHANGED <<mvars, rvars, pvars, ovars, nvars, ivars, lvars, dvars, svars>>

DispatchEvent(model, ty) ==
    /\ listenerOp' = [op |-> "dispatchEvent", model |-> model, ty |-> ty,
                      listener |-> "f", invoked |-> Invoked(eventTarget[model], ty),
                      removed |-> listenerOp.removed]
    /\ UNCHANGED <<eventTarget, numClosures>>
    /\ UNCHANGED <<mvars, rvars, pvars, ovars, nvars, ivars, lvars, dvars, svars>>

ListenerNext ==
    \/ \E model \in Models : \E ty \in EventTypes(model) : \E listener \in Listeners :
           AddEventListener(model, ty, listener)
    \/ \E model \in Models : \E ty \in EventTypes(model) : \E listener \in Listeners :
           RemoveEventListener(model, ty, listener)
    \/ \E model \in Models : \E ty \in EventTypes(model) : DispatchEvent(model, ty)

ListenerSpec == ListenerInit /\ [][ListenerNext]_vars

\* ---- the claims -------------------------------------------------------------

NumVoices == Cardinality(DOMAIN voices)

\* C1: after every Mixer operation the collection holds at most MAX_POLYPHONY
\* voices, and right after an onNoteDown made while the context is suspended it
\* holds at most one
C1_PolyphonyLimit ==
    /\ NumVoices <= MAX_POLYPHONY
    /\ (lastOp.op = "onNoteDown" /\ lastOp.suspended) => NumVoices <= 1

\* an onNoteDown in a running context evicted a voice and left MAX_POLYPHONY voices
C1_Witness ==
    /\ lastOp.op = "onNoteDown"
    /\ ~lastOp.suspended
    /\ Len(lastOp.evicted) >= 1
    /\ NumVoices = MAX_POLYPHONY

\* C2: every voice evicted by onNoteDown had, when it was evicted, a
\* noteDownTime less than or equal to that of every voice then in the collection
C2_EvictsOldest ==
    \A i \in 1..Len(lastOp.evicted) :
        \A t \in lastOp.evicted[i].present : lastOp.evicted[i].noteDownTime <= t

\* an eviction among voices of different ages
C2_Witness ==
    /\ lastOp.op = "onNoteDown"
    /\ \E i \in 1..Len(lastOp.evicted) : Cardinality(lastOp.evicted[i].present) >= 2

\* C3: at most one voice of the collection per (source, note) pair is in state
\* "sustaining"
C3_OneSustainingPerPair ==
    \A p \in Pairs :
        Cardinality({k \in DOMAIN voices :
                        /\ <<voices[k].source, voices[k].note>> = p
                        /\ voices[k].state = "sustaining"}) <= 1

IsForceStop(m) == m.messageType = "forceStop"

\* C4: recreateAllVoices leaves exactly one replacement per original that had not
\* ended, and every original is sent exactly one forceStop, timed 20 ms after the
\* current time
C4_RecreateCrossfades ==
    (lastOp.op = "tick" /\ lastOp.calls = 1) =>
        /\ DOMAIN lastOp.repl =
              {k \in DOMAIN lastOp.dropped : lastOp.dropped[k].state # "ended"}
        /\ DOMAIN voices = {lastOp.repl[k] : k \in DOMAIN lastOp.repl}
        /\ NumVoices = Cardinality(DOMAIN lastOp.repl)
        /\ \A k \in DOMAIN lastOp.dropped :
              LET sent == lastOp.dropped[k].sent IN
              /\ Len(sent) >= 1
              /\ sent[Len(sent)] = [messageType |-> "forceStop",
                                    time |-> currentTime + CROSSFADE_DELAY_MS]
              /\ \A i \in 1..(Len(sent) - 1) : ~IsForceStop(sent[i])

\* recreateAllVoices replaced two voices
C4_Witness ==
    /\ lastOp.op = "tick"
    /\ lastOp.calls = 1
    /\ Cardinality(DOMAIN lastOp.dropped) >= 2

\* C5: the replacement made by recreateAllVoices, the Voice and its processor,
\* carries the source, note, velocity, noteDownTime and noteUpTime of the original
C5_ReplacementCarriesFields ==
    (lastOp.op = "tick" /\ lastOp.calls = 1) =>
        \A k \in DOMAIN lastOp.repl :
            LET old == lastOp.dropped[k]
                new == voices[lastOp.repl[k]]
            IN  /\ new.source = old.source
                /\ new.note = old.note
                /\ new.velocity = old.velocity
                /\ new.noteDownTime = old.noteDownTime
                /\ new.noteUpTime = old.noteUpTime
                /\ new.node.note = old.note
                /\ new.node.velocity = old.velocity
                /\ new.node.noteDownTime = old.noteDownTime
                /\ new.node.noteUpTime = old.noteUpTime

\* C6: a tick of the 60 ms timer calls recreateAllVoices exactly once when one
\* or more change events arrived since the previous tick, and not at all otherwise
C6_ChangesCoalesced ==
    /\ toRecreate = (changesSinceTick > 0)
    /\ lastOp.op = "tick" => lastOp.calls = (IF lastOp.changes >= 1 THEN 1 ELSE 0)

\* two change events were answered by one call
C6_Witness ==
    /\ lastOp.op = "tick"
    /\ lastOp.changes >= 2
    /\ lastOp.calls = 1

\* C7: while globalMute is true the collection is empty
C7_MutedIsSilent == globalMuteValue => DOMAIN voices = {}

\* the rising edge of globalMute dropped the voices of a non-empty collection
C7_Witness ==
    /\ globalMuteValue
    /\ lastOp.op = "forceStopAllVoices"
    /\ DOMAIN lastOp.dropped # {}

Matches(v, source, note) == v.source = source /\ v.note = note

\* C8: onNoteUp(source, note) removes no voice, leaves the voices of other
\* (source, note) pairs as they were, and leaves no matching voice "sustaining"
C8_NoteUpFrame ==
    lastOp.op = "onNoteUp" =>
        /\ DOMAIN voices = DOMAIN lastOp.before
        /\ \A k \in DOMAIN voices :
              IF Matches(lastOp.before[k], lastOp.source, lastOp.note)
              THEN voices[k].state # "sustaining"
              ELSE voices[k] = lastOp.before[k]

\* onNoteUp released a sustaining voice while a voice of another pair was sustaining
C8_Witness ==
    /\ lastOp.op = "onNoteUp"
    /\ \E k \in DOMAIN lastOp.before :
          /\ Matches(lastOp.before[k], lastOp.source, lastOp.note)
          /\ lastOp.before[k].state = "sustaining"
    /\ \E k \in DOMAIN lastOp.before :
          /\ ~Matches(lastOp.before[k], lastOp.source, lastOp.note)
          /\ lastOp.before[k].state = "sustaining"

\* C9: the delivery of a voice's "ended" notification removes the voice from the
\* collection in the same step, and no voice of the collection is in state "ended"
C9_EndedIsRemoved ==
    /\ \A k \in DOMAIN voices : voices[k].state # "ended"
    /\ lastOp.op = "ended" => lastOp.key \notin DOMAIN voices

\* an "ended" notification was delivered while other voices stay in the collection
C9_Witness ==
    /\ lastOp.op = "ended"
    /\ DOMAIN voices # {}

\* C10: a processor posts "ended" at most once; process() calls after that post
\* nothing more to the control side
C10_EndedAtMostOnce ==
    \A k \in DOMAIN voices :
        /\ voices[k].node.endedPosts <= 1
        /\ voices[k].inbox <= 1
        /\ voices[k].node.endedPosts = 1 => ~voices[k].node.portOpen

\* process() ran again and found an end-of-voice condition, after the processor
\* had posted "ended" and before the control side received it
C10_Witness ==
    /\ lastOp.op = "processAfterEnded"
    /\ lastOp.ending
    /\ lastOp.key \in DOMAIN voices
    /\ voices[lastOp.key].inbox = 1

\* the messages posted to one voice: every release comes before every forceStop
ReleaseBeforeForceStop(sent) ==
    \A i, j \in 1..Len(sent) :
        (IsForceStop(sent[i]) /\ sent[j].messageType = "release") => j < i

\* C11: the controller never posts a release to a voice after it has posted a
\* forceStop to it, for the voices of the collection and for the voices an
\* operation has just taken out of it
C11_ReleaseThenForceStop ==
    /\ \A k \in DOMAIN voices : ReleaseBeforeForceStop(voices[k].sent)
    /\ \A k \in DOMAIN lastOp.dropped : ReleaseBeforeForceStop(lastOp.dropped[k].sent)

\* a released voice was force-stopped: its port carried a release, then a forceStop
C11_Witness ==
    \E k \in DOMAIN lastOp.dropped :
        LET sent == lastOp.dropped[k].sent IN
        /\ Len(sent) = 2
        /\ sent[1].messageType = "release"
        /\ IsForceStop(sent[2])

\* C12: a release takes effect by its timestamp: when the processor is handed a
\* release, each envelope has the state and the level of the envelope of a
\* processor that was handed the same release at the instant it was posted
C12_ReleaseByTimestamp ==
    (procOp.op = "deliver" /\ procOp.data.messageType = "release") =>
        \A opI \in OPERATOR_NAMES :
            /\ proc.envelopes[opI].state = procOp.before.punctual[opI].state
            /\ proc.envelopes[opI].level = procOp.before.punctual[opI].level

\* ceil(0.03 * sampleRate / blockSize)
FadeOutBlocks == (TransitionSamples + BlockSize - 1) \div BlockSize

\* C13: a block fades out exactly when its end time is at or after the
\* forceStopTime and the fadeInTime; from the first such block on every block
\* fades out, each lowers the fade gain (or leaves it at 0), and the gain is 0
\* after at most ceil(0.03 * sampleRate / blockSize) of them
C13_FadeOutReachesZero ==
    procOp.op = "process" =>
        /\ procOp.fadingOut <=> (/\ proc.fadeOutTime # Null
                                 /\ procOp.endTime >= proc.fadeOutTime
                                 /\ procOp.endTime >= proc.fadeInTime)
        /\ proc.fadeOutBlocks > 0 => procOp.fadingOut
        /\ procOp.fadingOut =>
              /\ \/ Less(procOp.endFadeGain, procOp.startFadeGain)
                 \/ procOp.endFadeGain = Whole(0)
              /\ proc.fadeOutBlocks <= FadeOutBlocks
              /\ proc.fadeOutBlocks = FadeOutBlocks => proc.fadeGain = Whole(0)

\* a fade-out from MAX_VOLUME has reached 0 in its last block
C13_Witness ==
    /\ procOp.op = "process"
    /\ procOp.fadingOut
    /\ proc.fadeOutBlocks = FadeOutBlocks
    /\ Less(Whole(0), procOp.startFadeGain)
    /\ proc.fadeGain = Whole(0)

\* the processor has been released: by a message or from its construction
Released == proc.noteUpTime # Null

\* C14: a released processor whose process() keeps being called posts "ended",
\* and unless a forceStop or a ping has reached it, every envelope gets to
\* finished with its damped level at its level
C14_ReleasedEnds ==
    /\ Released ~> (proc.endedPosts = 1)
    /\ Released ~> \/ AllEnvelopesFinished(proc.envelopes)
                   \/ proc.fadeOutTime # Null
                   \/ proc.samplesSinceLastPing # Null

\* a processor released by a message, with no forceStop and no ping posted, has
\* posted "ended" from a block that found every envelope finished and settled
C14_Witness ==
    /\ posted.release = 1
    /\ posted.forceStop = 0
    /\ posted.ping = 0
    /\ Released
    /\ proc.endedPosts = 1
    /\ procOp.op = "process"
    /\ procOp.allEnvelopesFinished
    /\ \E opI \in OPERATOR_NAMES : proc.envelopes[opI].nominalReleaseSamples > 0

\* C15: "ended" is only posted by process(), and a process() that ends the voice
\* without having faded out to 0 and without an overload (no stall of the pings,
\* no starved pings) found every envelope finished with dampedLevel = level
C15_EndedOnlyWhenSettled ==
    /\ proc.endedPosts > 0 => (procOp.op = "process" /\ procOp.ending)
    /\ (/\ procOp.op = "process"
        /\ procOp.ending
        /\ ~procOp.fadedOut
        /\ ~procOp.stalled
        /\ ~procOp.starved) =>
           \A opI \in OPERATOR_NAMES :
               /\ proc.envelopes[opI].state = "finished"
               /\ proc.envelopes[opI].dampedLevel = proc.envelopes[opI].level

\* a block ended the voice on its envelopes alone, while it was at full volume
C15_Witness ==
    /\ procOp.op = "process"
    /\ procOp.ending
    /\ ~procOp.fadedOut
    /\ ~procOp.stalled
    /\ ~procOp.starved
    /\ proc.endedPosts = 1
    /\ proc.fadeGain = MAX_VOLUME

\* C16 as stated: every output sample whose sample time is earlier than
\* fadeInTime is zero
C16_SilentBeforeFadeIn ==
    procOp.op = "process" =>
        \A i \in 1..BlockSize :
            procOp.startTime + (i - 1) * TicksPerSample < proc.fadeInTime =>
                procOp.mono[i] = Whole(0)

\* C16 as amended: every output sample of a block whose end time is earlier than
\* fadeInTime is zero, and so is the first sample of a block that starts before
\* fadeInTime
C16_SilentBlocksBeforeFadeIn ==
    procOp.op = "process" =>
        /\ procOp.endTime < proc.fadeInTime =>
              \A i \in 1..BlockSize : procOp.mono[i] = Whole(0)
        /\ procOp.startTime < proc.fadeInTime => procOp.mono[1] = Whole(0)

\* the operators produced a peak in a block that ends before fadeInTime
C16_Witness ==
    /\ procOp.op = "process"
    /\ procOp.endTime < proc.fadeInTime
    /\ \A i \in 1..BlockSize : procOp.samples[i] = 1 /\ procOp.mono[i] = Whole(0)

FreshEnvelope ==
    /\ envOp.op = "new"
    /\ envOp.enabled
    /\ envOp.time = 0
    /\ envOp.noteUpTime = Null

\* C18 as stated: a fresh envelope starts in state delay at level 0 when its
\* delay breakpoint is later than 0 seconds, and in state attack when it is 0
C18_StartsInDelayOrAttack ==
    FreshEnvelope =>
        IF envOp.src[1].seconds > 0
        THEN env.state = "delay" /\ env.level = Whole(0)
        ELSE env.state = "attack"

\* C18 as amended: a fresh envelope starts in state delay at level 0 when its
\* delay is one sample or longer; otherwise in the first of attack and decay that
\* is one sample or longer, at that segment's start level; otherwise in sustain
C18_StartsInFirstSegment ==
    FreshEnvelope =>
        IF env.delaySamples > 0
        THEN env.state = "delay" /\ env.level = Whole(0)
        ELSE IF env.attackSamples > 0
        THEN env.state = "attack" /\ env.level = env.attackStartLevel
        ELSE IF env.decaySamples > 0
        THEN env.state = "decay" /\ env.level = env.decayStartLevel
        ELSE env.state = "sustain" /\ env.level = env.sustainLevel

\* a fresh envelope with a delay of 0 seconds and an attack of 0 seconds
C18_Witness ==
    /\ FreshEnvelope
    /\ envOp.src[1].seconds = 0
    /\ envOp.src[2].seconds = 0
    /\ env.state = "decay"

\* C19: an envelope constructed e samples after noteDownTime, not released, has
\* the state and the level of one constructed at noteDownTime and advanced by e
C19_SeekIsAdvance ==
    (envOp.op = "new" /\ envOp.enabled /\ envOp.noteUpTime = Null) =>
        LET e == envOp.time \div TicksPerSample
            advanced == AdvanceBy(Envelope(envOp.src, TRUE, 0, Null, 0), e)
        IN  /\ env.state = advanced.state
            /\ env.level = advanced.level

\* a release() has just acted on a running envelope whose level was its
\* release-end level
ReleasedAtEndLevel ==
    /\ envOp.op = "release"
    /\ envOp.before.state \notin {"release", "finished"}
    /\ envOp.before.level = envOp.before.releaseEndLevel

AppliedVariations ==
    IF operatorsOp.op = "advanceOperators"
    THEN {[variation |-> operators.variations[pass.index], pass |-> pass] :
             pass \in {operatorsOp.applied[j] : j \in DOMAIN operatorsOp.applied}}
    ELSE {}

\* the passes over a descending input range with the input strictly inside it
DescendingInside ==
    {a \in AppliedVariations :
        /\ Less(a.variation.inputTo, a.variation.inputFrom)
        /\ Less(a.variation.inputTo, a.pass.inputValue)
        /\ Less(a.pass.inputValue, a.variation.inputFrom)}

\* C21: over a descending input range (inputFrom > inputTo), an input strictly
\* between the endpoints has the ratio (inputFrom - inputValue) / (inputFrom -
\* inputTo), which is 1 minus the ratio of the ascending range over the same
\* endpoints
C21_DescendingRatio ==
    \A a \in DescendingInside :
        /\ a.pass.ratio = Over(Minus(a.variation.inputFrom, a.pass.inputValue),
                               Minus(a.variation.inputFrom, a.variation.inputTo))
        /\ a.pass.ratio = Minus(Whole(1), Ratio(a.variation.inputTo, a.variation.inputFrom,
                                                a.pass.inputValue))

\* C21: inputFrom = 100, inputTo = 30 and inputValue = 50 give 50/70
C21_Witness ==
    \E a \in DescendingInside :
        /\ a.variation.inputFrom = Whole(100)
        /\ a.variation.inputTo = Whole(30)
        /\ a.pass.inputValue = Whole(50)
        /\ a.pass.ratio = Frac(50, 70)

\* the linear interpolation of inputValue from inputFrom (0) to inputTo (1),
\* clamped to the range from 0 to 1
ClampedInterpolation(inputFrom, inputTo, inputValue) ==
    MathMax(Whole(0),
            MathMin(Whole(1),
                    Over(Minus(inputValue, inputFrom), Minus(inputTo, inputFrom))))

\* C22: the ratio of every variation and input value is the linear interpolation
\* of the input from inputFrom (ratio 0) to inputTo (ratio 1) clamped to the range
\* from 0 to 1: over a descending range an input at or above inputFrom has ratio 0
\* and one at or below inputTo has ratio 1; the ratio is a number from 0 to 1
\* also when inputFrom = inputTo
C22_ClampedInterpolation ==
    \A a \in AppliedVariations :
        /\ AtMost(Whole(0), a.pass.ratio) /\ AtMost(a.pass.ratio, Whole(1))
        /\ a.variation.inputFrom # a.variation.inputTo =>
               a.pass.ratio = ClampedInterpolation(a.variation.inputFrom,
                                                   a.variation.inputTo, a.pass.inputValue)
        /\ Less(a.variation.inputTo, a.variation.inputFrom) =>
               /\ AtMost(a.variation.inputFrom, a.pass.inputValue) =>
                      a.pass.ratio = Whole(0)
               /\ AtMost(a.pass.inputValue, a.variation.inputTo) =>
                      a.pass.ratio = Whole(1)

\* the number of entries of instrument.variations before its first null
NumBeforeNull(variations) ==
    Min({i \in DOMAIN variations : IsNullVariation(variations[i])}
        \cup {Len(variations) + 1}) - 1

\* the product of the outputMul of the first n passes whose variation has the
\* given output
RECURSIVE OutputMulProduct(_, _, _, _)
OutputMulProduct(variations, applied, output, n) ==
    IF n = 0 THEN Whole(1)
    ELSE Times(OutputMulProduct(variations, applied, output, n - 1),
               IF variations[n].output = output THEN applied[n].outputMul ELSE Whole(1))

\* C23: a mixed sample is the result of applying exactly the variations before
\* the first null entry, in the order of the list: the loop makes one pass for
\* each of them and none for a later entry, a pass of an LFO-input variation reads
\* the LFO as the LFO-output variations before it (and no other) have scaled it,
\* and each operator's output is its signal scaled by every pass onto it
C23_VariationsInOrder ==
    operatorsOp.op = "advanceOperators" =>
        LET variations == operators.variations
            applied == operatorsOp.applied
            n == NumBeforeNull(variations)
        IN  /\ Len(applied) = n
            /\ \A j \in 1..n :
                   /\ applied[j].index = j
                   /\ applied[j].inputValue =
                          IF variations[j].input = "lfo"
                          THEN Times(operatorsOp.lfo,
                                     OutputMulProduct(variations, applied, "lfo", j - 1))
                          ELSE InputValue(operators, variations[j], operatorsOp.lfo)
                   /\ applied[j].outputMul =
                          OutputMul(variations[j],
                                    Ratio(variations[j].inputFrom, variations[j].inputTo,
                                          applied[j].inputValue))
            /\ \A opI \in OPERATOR_NAMES :
                   operators.lastOpOutputsPost[opI] =
                       Times(operatorsOp.opScratchPost[opI],
                             OutputMulProduct(variations, applied, opI, n))
            /\ operatorsOp.mixedSample =
                   MixedSample(operators, operators.lastOpOutputsPost, <<"a", "b", "c", "d">>)

\* C23: a list with an entry after its first null, in which an LFO-output
\* variation that halves the LFO stands between two LFO-input variations
C23_Witness ==
    /\ operatorsOp.op = "advanceOperators"
    /\ NumBeforeNull(operators.variations) = 3
    /\ ~IsNullVariation(operators.variations[5])
    /\ operators.variations[1].input = "lfo"
    /\ operators.variations[2].output = "lfo"
    /\ operators.variations[3].input = "lfo"
    /\ operatorsOp.applied[1].inputValue = Whole(1)
    /\ operatorsOp.applied[3].inputValue = Frac(1, 2)
    /\ operatorsOp.mixedSample # Whole(0)

\* C24: for every <<source, note>> the MusicModel dispatches notedown and noteup
\* in strict alternation, beginning with a notedown: no operation dispatches a
\* notedown for a pair that is down or a noteup for a pair that is not, and the
\* pairs that are down are those the virtual pianos hold
C24_NoteEventsAlternate ==
    /\ ~musicOp.misordered
    /\ heard = vp

\* C24: an operation dispatched the noteup of a pair whose notedown an earlier
\* operation dispatched, while another pair stays down
C24_Witness ==
    /\ \E j \in DOMAIN musicOp.events :
           /\ musicOp.events[j].type = "noteup"
           /\ <<musicOp.events[j].source, musicOp.events[j].note>> \notin heard
    /\ heard # {}

\* C25: a merge(partial) that returns has returned true and dispatched exactly
\* one mutateinstrument event if the active instrument differs from the one
\* before the call, and has returned false and dispatched nothing if it does not;
\* merging the same partial once more reports no change
C25_MergeReportsChange ==
    (instrumentOp.op = "merge" /\ ~instrumentOp.threw) =>
        /\ instrumentOp.returned = (activeInstrument # instrumentOp.before)
        /\ instrumentOp.events = IF instrumentOp.returned THEN 1 ELSE 0
        /\ ~MergeInstruments(activeInstrument, instrumentOp.partial).threw
        /\ ~MergeInstruments(activeInstrument, instrumentOp.partial).mutated

\* C25: { a: { enabled: false } } merged onto an instrument that an earlier merge
\* of the same partial changed: false is returned and no event dispatched
C25_Witness ==
    /\ instrumentOp.op = "merge"
    /\ instrumentOp.partial = Obj([a |-> Obj([enabled |-> Prim("false")])])
    /\ ~instrumentOp.threw
    /\ ~instrumentOp.returned
    /\ instrumentOp.events = 0
    /\ activeInstrument.fields.a.fields.enabled # FirstInstrument.fields.a.fields.enabled

\* a partial whose shape does not match the value it is merged onto: somewhere
\* it has an array for a non-array or a non-array for an array, an object for a
\* primitive or a primitive for an object, a key the object does not have, or an
\* element past the end of the array (null stands for an absent object)
RECURSIVE ShapeMismatch(_, _)
ShapeMismatch(target, src) ==
    IF src.kind = "undefined" THEN FALSE
    ELSE IF target.kind = "array"
    THEN \/ src.kind # "array"
         \/ \E i \in DOMAIN src.items :
                /\ src.items[i] # Undefined
                /\ \/ i \notin DOMAIN target.items
                   \/ ShapeMismatch(target.items[i], src.items[i])
    ELSE IF target.kind = "object"
    THEN \/ src.kind = "array"
         \/ src.kind = "prim"
         \/ /\ src.kind = "object"
            /\ \E key \in DOMAIN src.fields :
                   /\ src.fields[key] # Undefined
                   /\ \/ key \notin DOMAIN target.fields
                      \/ ShapeMismatch(target.fields[key], src.fields[key])
    ELSE IF target.kind = "null" THEN src.kind = "array" \/ src.kind = "prim"
    ELSE src.kind = "array" \/ src.kind = "object"

\* C26: merge(partial) throws for every partial whose shape does not match the
\* active instrument
C26_MismatchThrows ==
    (instrumentOp.op = "merge" /\ ShapeMismatch(instrumentOp.before, instrumentOp.partial))
        => instrumentOp.threw

\* the keys of every object and the length of every array of a value, without
\* the primitives
RECURSIVE Skeleton(_)
Skeleton(value) ==
    IF value.kind = "array"
    THEN Arr([i \in DOMAIN value.items |-> Skeleton(value.items[i])])
    ELSE IF value.kind = "object"
    THEN Obj([key \in DOMAIN value.fields |-> Skeleton(value.fields[key])])
    ELSE [kind |-> value.kind]

\* an instrument with its variation slots emptied
WithoutVariations(inst) ==
    [inst EXCEPT !.fields.variations.items = [i \in DOMAIN @ |-> JsNull]]

\* every variation slot holds null or a Variation with all of its fields
SlotsWellFormed(inst) ==
    /\ inst.fields.variations.kind = "array"
    /\ \A i \in DOMAIN inst.fields.variations.items :
           LET slot == inst.fields.variations.items[i] IN
           \/ slot.kind = "null"
           \/ /\ slot.kind = "object"
              /\ DOMAIN slot.fields = DOMAIN RackVariation.fields
              /\ \A key \in DOMAIN slot.fields : slot.fields[key].kind = "prim"

\* C27: after a merge(partial) that returns, the active instrument has the keys
\* at every object level and the length of every array that it had before the
\* call, and every variation slot still holds null or a Variation with all of its
\* fields
C27_MergeKeepsShape ==
    (/\ instrumentOp.op = "merge"
     /\ ~instrumentOp.threw
     /\ SlotsWellFormed(instrumentOp.before)) =>
        /\ SlotsWellFormed(activeInstrument)
        /\ Skeleton(WithoutVariations(activeInstrument))
               = Skeleton(WithoutVariations(instrumentOp.before))

\* the voices of the collection that have not been released
HeldVoices == {k \in DOMAIN voices : voices[k].noteUpTime = Null}

\* C28: every voice of the Mixer's collection whose noteUpTime is null belongs
\* to a (source, note) pair that is down in the MusicModel
C28_NoStuckNotes ==
    \A k \in HeldVoices : <<voices[k].source, voices[k].note>> \in vp

\* a noteup has released one voice while another voice, whose note is still
\* down, stays held
C28_Witness ==
    /\ lastOp.op = "onNoteUp"
    /\ \E k \in DOMAIN voices :
            /\ voices[k].noteUpTime # Null
            /\ <<voices[k].source, voices[k].note>> \notin vp
    /\ HeldVoices # {}

\* the number of "release" messages a voice has posted to its processor
NumReleases(v) ==
    Cardinality({i \in 1..Len(v.sent) : v.sent[i].messageType = "release"})

\* C29: once the noteUpTime of a voice of the collection is non-null, no
\* operation changes it and no operation posts a release message to that voice
C29_NoteUpTimeFinal ==
    [][\A k \in DOMAIN voices \cap DOMAIN voices' :
            voices[k].noteUpTime # Null =>
                /\ voices'[k].noteUpTime = voices[k].noteUpTime
                /\ NumReleases(voices'[k]) = NumReleases(voices[k])]_vars

\* 0 <= x <= 1
InUnit(x) == IsFinite(x) /\ ~Less(x, Whole(0)) /\ ~Less(Whole(1), x)

\* C30: the level and the damped level of an envelope whose breakpoint levels lie
\* in [0, 1] lie in [0, 1] after construction and after every advanceBy and release
C30_LevelsInUnit ==
    /\ InUnit(env.level)
    /\ InUnit(env.dampedLevel)

\* C31: a replacement constructed with already-elapsed time has the LFO angle
\* and the LFO value of the processor that has run since noteDownTime
C31_ReplacementLfo ==
    lfoOp.op = "recreate" =>
        /\ lfoOp.replacement.lfoAngle = lfoProc.lfoAngle
        /\ lfoOp.replacement.lfo = lfoProc.lfo

\* C32: the voice created by an onNoteDown call is in the collection when the
\* call returns, and is none of the voices the call evicted
C32_NewVoiceStays ==
    lastOp.op = "onNoteDown" =>
        /\ nextVoiceKey - 1 \in DOMAIN voices
        /\ nextVoiceKey - 1 \notin DOMAIN lastOp.dropped
        /\ voices[nextVoiceKey - 1].source = lastOp.source
        /\ voices[nextVoiceKey - 1].note = lastOp.note

\* an onNoteDown in a running context evicted a voice whose noteDownTime is that
\* of the new voice
C32_Witness ==
    /\ lastOp.op = "onNoteDown"
    /\ ~lastOp.suspended
    /\ Len(lastOp.evicted) >= 1
    /\ nextVoiceKey - 1 \in DOMAIN voices
    /\ lastOp.evicted[1].noteDownTime = voices[nextVoiceKey - 1].noteDownTime

\* the same under the limit of a suspended context
C32_WitnessSuspended ==
    /\ lastOp.op = "onNoteDown"
    /\ lastOp.suspended
    /\ Len(lastOp.evicted) >= 1
    /\ nextVoiceKey - 1 \in DOMAIN voices
    /\ lastOp.evicted[1].noteDownTime = voices[nextVoiceKey - 1].noteDownTime

\* a release() has just acted on a running envelope with a downward nominal
\* release one sample or longer, at or above its sustain level
ReleasedFromAbove ==
    /\ envOp.op = "release"
    /\ envOp.before.state \notin {"release", "finished"}
    /\ Less(envOp.before.releaseEndLevel, envOp.before.sustainLevel)
    /\ envOp.before.nominalReleaseSamples > 0
    /\ ~Less(envOp.before.level, envOp.before.sustainLevel)

\* C33: such a release lasts the nominal number of release samples whatever the
\* level was, and over them the level falls in a straight line from that level
\* to the release-end level
C33_ReleaseKeepsDuration ==
    ReleasedFromAbove =>
        /\ env.state = "release"
        /\ env.samplesToNextState = env.nominalReleaseSamples
        /\ env.level = envOp.before.level
        /\ \A n \in 0..env.nominalReleaseSamples :
              /\ AdvanceBy(env, n).state = "release"
              /\ AdvanceBy(env, n).level =
                    Plus(env.level,
                         Times(Minus(env.releaseEndLevel, env.level),
                               Frac(n, env.nominalReleaseSamples)))
        /\ AdvanceBy(env, env.nominalReleaseSamples + 1).state = "finished"

\* a release() acted on an envelope strictly above its sustain level, with a
\* release two samples or longer
C33_Witness ==
    /\ ReleasedFromAbove
    /\ Less(envOp.before.sustainLevel, envOp.before.level)
    /\ env.nominalReleaseSamples >= 2
    /\ env.state = "release"

\* C34: samplesToNextState is null exactly when the state is sustain or
\* finished, and no advanceBy call reaches the "unreachable code" error
C34_CountIffRunning ==
    /\ (env.samplesToNextState = Null) <=> (env.state \in {"sustain", "finished"})
    /\ \A n \in 0..(MaxAdvance + 1) :
          ~AdvanceLoopThrows([e |-> env, samplesRemaining |-> n])

\* an advanceBy has just taken an envelope from decay or earlier into sustain
C34_Witness ==
    /\ envOp.op = "advanceBy"
    /\ envOp.before.state \in {"delay", "attack", "decay"}
    /\ env.state = "sustain"
    /\ env.samplesToNextState = Null

\* the place of a state in the chain delay, attack, decay, sustain, release, finished
StateRank(state) ==
    CASE state = "delay" -> 0
      [] state = "attack" -> 1
      [] state = "decay" -> 2
      [] state = "sustain" -> 3
      [] state = "release" -> 4
      [] state = "finished" -> 5

\* C35: an advanceBy or release call never takes an envelope to an earlier state
\* of the chain, leaves a finished envelope finished, and a release() call on an
\* envelope in state release or finished changes nothing
C35_StatesMoveForward ==
    [][/\ StateRank(env.state) <= StateRank(env'.state)
       /\ env.state = "finished" => env'.state = "finished"
       /\ (envOp'.op = "release" /\ env.state \in {"release", "finished"}) => env' = env]_vars

\* a release() has been called on an envelope that is part of the way through
\* its release
C35_Witness ==
    /\ envOp.op = "release"
    /\ envOp.before.state = "release"
    /\ envOp.before.samplesToNextState > 0
    /\ Less(envOp.before.releaseEndLevel, envOp.before.level)

\* a ping that arrived with fewer than half the expected samples produced since
\* the ping before it
StarvedPing(entry) ==
    /\ entry.samples # Null
    /\ 2 * entry.samples < PingExpectedSamples

\* the number of starved pings at the end of a log of pings
RECURSIVE TrailingStarved(_)
TrailingStarved(log) ==
    IF log = <<>> \/ ~StarvedPing(log[Len(log)]) THEN 0
    ELSE 1 + TrailingStarved(SubSeq(log, 1, Len(log) - 1))

\* C36: a block ends the voice for audio starvation only when the last two pings
\* delivered were both starved; the count of starved pings is that of the
\* starved pings delivered since the last ping that was not, and the first ping
\* delivered is never a starved one
C36_StarvedAfterTwoPings ==
    /\ proc.audioStarvedPings = TrailingStarved(proc.pingLog)
    /\ proc.pingLog # <<>> => ~StarvedPing(proc.pingLog[1])
    /\ (procOp.op = "process" /\ procOp.starved) =>
          /\ Len(proc.pingLog) >= 3
          /\ StarvedPing(proc.pingLog[Len(proc.pingLog)])
          /\ StarvedPing(proc.pingLog[Len(proc.pingLog) - 1])

\* a block has ended the voice for starvation alone, after three pings with no
\* block between them
C36_Witness ==
    /\ procOp.op = "process"
    /\ procOp.starved
    /\ procOp.ending
    /\ ~procOp.stalled
    /\ ~procOp.fadedOut
    /\ ~procOp.allEnvelopesFinished
    /\ Len(proc.pingLog) = 3

\* a ping that was not starved has reset a count of one
C36_WitnessReset ==
    /\ procOp.op = "deliver"
    /\ procOp.data.messageType = "ping"
    /\ procOp.before.audioStarvedPings = 1
    /\ proc.audioStarvedPings = 0

\* C37: once a ping has been delivered, a block reports a stalled main thread
\* exactly when the samples rendered since the last ping delivered have reached
\* twice the expected number, and that block ends the voice; so a processor
\* still running has rendered fewer; a processor no ping was delivered to never
\* reports a stall
C37_StalledAtTwiceExpected ==
    /\ (procOp.op = "process" /\ proc.pingLog # <<>>) =>
          (procOp.stalled <=> proc.rendered >= 2 * PingExpectedSamples)
    /\ (procOp.op = "process" /\ procOp.stalled) =>
          /\ procOp.ending
          /\ ~proc.portOpen
          /\ proc.endedPosts = 1
    /\ (proc.portOpen /\ proc.pingLog # <<>>) => proc.rendered < 2 * PingExpectedSamples
    /\ (procOp.op = "process" /\ proc.pingLog = <<>>) => ~procOp.stalled

\* a block has ended the voice for a stalled main thread alone
C37_Witness ==
    /\ procOp.op = "process"
    /\ procOp.stalled
    /\ procOp.ending
    /\ ~procOp.starved
    /\ ~procOp.fadedOut
    /\ ~procOp.allEnvelopesFinished
    /\ proc.rendered = 2 * PingExpectedSamples

\* a processor no ping was delivered to has rendered more than twice the
\* expected number of samples and is still running
C37_WitnessNoPing ==
    /\ procOp.op = "process"
    /\ proc.pingLog = <<>>
    /\ proc.portOpen
    /\ procOp.endTime - proc.noteDownTime > 2 * PingExpectedSamples * TicksPerSample

\* C38: among the merged messages with one tick count, every noteup comes
\* before every notedown
C38_NoteUpFirst ==
    \A i, j \in 1..Len(mergedMessages) :
        (/\ i < j
         /\ mergedMessages[i].atTicks = mergedMessages[j].atTicks
         /\ mergedMessages[i].type = "notedown") => mergedMessages[j].type # "noteup"

\* C39: after every call that returns normally the index of the active
\* instrument is that of an instrument of the list
C39_ActiveInstrumentExists ==
    ~listOp.threw =>
        /\ 0 <= activeInstrumentValue
        /\ activeInstrumentValue < Len(instruments)

\* C40: once removeEventListener was called with a registered listener and its
\* type, an event of that type does not call the listener
C40_RemovedListenerSilent ==
    listenerOp.op = "dispatchEvent" =>
        \A listener \in Listeners :
            <<listenerOp.model, listenerOp.ty, listener>> \in listenerOp.removed =>
                \A k \in 1..Len(listenerOp.invoked) : listenerOp.invoked[k] # listener

====
